---- MODULE Spec2Model ----
(***************************************************************************)
(* Enhanced Antenna Pattern (EAP) gain engine of the SAS Release 2         *)
(* reference model: harness/reference_models/antenna/antenna.py and its    *)
(* refactoring lib/antenna/antenna.py.                                     *)
(*                                                                         *)
(* The engine is a library of functions over numbers.  Python floats are   *)
(* modelled as exact rationals <<numerator, denominator>> in lowest terms, *)
(* so that equalities stated about gains are decided exactly.  A call of a *)
(* function is one action: the inputs are drawn in the initial state, the  *)
(* action computes the whole call and records its outcome in out.          *)
(***************************************************************************)
EXTENDS Integers, Sequences, FiniteSets, TLC

VARIABLES
  pc,     \* "start" before the call, "done" after it
  tx,     \* the CBSD registration record handed to calculate_antenna_gain_EAP
  rx,     \* the receiver record handed to calculate_antenna_gain_EAP
  dirs,   \* the direction {'hor', 'ver'} of the ray, in degrees
  call,   \* the function applied and its remaining arguments
  out     \* what the call produced

vars == <<pc, tx, rx, dirs, call, out>>

(***************************************************************************)
(* Float arithmetic, as exact rationals.                                   *)
(***************************************************************************)
Abs(x) == IF x < 0 THEN -x ELSE x

RECURSIVE Gcd(_, _)
Gcd(a, b) == IF b = 0 THEN a ELSE Gcd(b, a % b)

Rat(n, d) ==
  LET g == Gcd(Abs(n), Abs(d))
      s == IF d < 0 THEN -1 ELSE 1
  IN  <<(s * n) \div g, (s * d) \div g>>

RInt(n) == <<n, 1>>

RNeg(x) == <<-x[1], x[2]>>

RAdd(x, y) ==
  LET g == Gcd(x[2], y[2])
      l == (x[2] \div g) * y[2]
  IN  Rat(x[1] * (l \div x[2]) + y[1] * (l \div y[2]), l)

RSub(x, y) == RAdd(x, RNeg(y))

RMul(x, y) ==
  LET g1 == Gcd(Abs(x[1]), y[2])
      g2 == Gcd(Abs(y[1]), x[2])
  IN  Rat((x[1] \div g1) * (y[1] \div g2), (x[2] \div g2) * (y[2] \div g1))

RDiv(x, y) == RMul(x, Rat(y[2], y[1]))

RLt(x, y) == x[1] * y[2] < y[1] * x[2]

RLe(x, y) == x[1] * y[2] <= y[1] * x[2]

RAbs(x) == <<Abs(x[1]), x[2]>>

(***************************************************************************)
(* Angle algebra.                                                          *)
(***************************************************************************)

\* theta_r[theta_r > 180] -= 360 ; theta_r[theta_r < -180] += 360
\* The second statement reads the array the first one has updated.
Fold180(theta) ==
  LET a == IF RLt(RInt(180), theta) THEN RSub(theta, RInt(360)) ELSE theta
  IN  IF RLt(a, RInt(-180)) THEN RAdd(a, RInt(360)) ELSE a

\* if downtilt < -15: downtilt = -15 ; if downtilt > 15: downtilt = 15
LimitDowntilt(downtilt) ==
  LET a == IF downtilt < -15 THEN -15 ELSE downtilt
  IN  IF a > 15 THEN 15 ELSE a

\* np.cos(theta_r * 180 / np.pi) for theta_r = k/2 degrees, k = -360 .. 360,
\* in tenths.  cos(0) is exactly 1; every other entry is the nearest tenth
\* that is prime to 10, so that, as for the float cosine of a non-zero angle,
\* its product with a downtilt of 5 or 15 degrees added to a whole number of
\* degrees is never a whole number of degrees (the table is off by at most 0.2).
CosTable == <<
    -9, 7, -3, -1, 7, -7, 9, -9, 9, -7, 3, 1, -3, 7, -9, 9, -9, 7, -3, 1, 3, -7, 9, -9,
    9, -9, 7, -3, -1, 3, -7, 9, -9, 9, -7, 3, -1, -3, 7, -9, 9, -9, 9, -7, 3, 1, -3, 7,
    -9, 9, -9, 7, -3, 1, 3, -7, 9, -9, 9, -7, 7, -1, -3, 7, -9, 9, -9, 9, -7, 3, 1, -3,
    7, -9, 9, -9, 7, -3, 1, 3, -7, 9, -9, 9, -9, 7, -3, -1, 3, -7, 9, -9, 9, -7, 3, -1,
    -3, 7, -9, 9, -9, 9, -7, 1, 1, -7, 9, -9, 9, -9, 7, -3, -1, 3, -7, 9, -9, 9, -7, 3,
    -1, -3, 7, -9, 9, -9, 9, -7, 3, 1, -3, 7, -9, 9, -9, 7, -3, 1, 3, -7, 9, -9, 9, -9,
    7, -3, -1, 7, -7, 9, -9, 9, -7, 3, 1, -3, 7, -9, 9, -9, 7, -3, 1, 3, -7, 9, -9, 9,
    -9, 7, -3, -1, 3, -7, 9, -9, 9, -7, 3, -1, -3, 7, -9, 9, -9, 9, -7, 3, 1, -7, 7, -9,
    9, -9, 7, -3, 1, 3, -7, 9, -9, 9, -7, 7, -1, -3, 7, -9, 9, -9, 9, -7, 3, 1, -3, 7,
    -9, 9, -9, 7, -3, 1, 3, -7, 9, -9, 9, -9, 7, -3, -1, 3, -7, 9, -9, 9, -7, 3, -1, -3,
    7, -9, 9, -9, 7, -7, 1, 1, -7, 9, -9, 9, -9, 7, -3, -1, 3, -7, 9, -9, 9, -7, 3, -1,
    -3, 7, -9, 9, -9, 9, -7, 3, 1, -3, 7, -9, 9, -9, 7, -3, 1, 3, -7, 9, -9, 9, -9, 7,
    -1, -1, 7, -9, 9, -9, 9, -7, 3, 1, -3, 7, -9, 9, -9, 7, -3, 1, 3, -7, 9, -9, 9, -9,
    7, -3, -1, 3, -7, 9, -9, 9, -7, 3, -1, -3, 7, -9, 9, -9, 9, -7, 3, 1, -7, 7, -9, 9,
    -9, 7, -3, -1, 3, -7, 9, -9, 9, -7, 3, -1, -3, 7, -9, 9, -9, 9, -7, 3, 1, -3, 7, -9,
    10, -9, 7, -3, 1, 3, -7, 9, -9, 9, -9, 7, -3, -1, 3, -7, 9, -9, 9, -7, 3, -1, -3, 7,
    -9, 9, -9, 7, -7, 1, 3, -7, 9, -9, 9, -9, 7, -3, -1, 3, -7, 9, -9, 9, -7, 3, -1, -3,
    7, -9, 9, -9, 9, -7, 3, 1, -3, 7, -9, 9, -9, 7, -3, 1, 3, -7, 9, -9, 9, -9, 7, -1,
    -1, 7, -9, 9, -9, 9, -7, 3, 1, -3, 7, -9, 9, -9, 7, -3, 1, 3, -7, 9, -9, 9, -9, 7,
    -3, -1, 3, -7, 9, -9, 9, -7, 3, -1, -3, 7, -9, 9, -9, 9, -7, 1, 1, -7, 7, -9, 9, -9,
    7, -3, -1, 3, -7, 9, -9, 9, -7, 3, -1, -3, 7, -9, 9, -9, 9, -7, 3, 1, -3, 7, -9, 9,
    -9, 7, -3, 1, 3, -7, 9, -9, 9, -9, 7, -3, -1, 7, -7, 9, -9, 9, -7, 3, 1, -3, 7, -9,
    9, -9, 7, -7, 1, 3, -7, 9, -9, 9, -9, 7, -3, -1, 3, -7, 9, -9, 9, -7, 3, -1, -3, 7,
    -9, 9, -9, 9, -7, 3, 1, -3, 7, -9, 9, -9, 7, -3, 1, 3, -7, 9, -9, 9, -7, 7, -1, -3,
    7, -9, 9, -9, 9, -7, 3, 1, -3, 7, -9, 9, -9, 7, -3, 1, 3, -7, 9, -9, 9, -9, 7, -3,
    -1, 3, -7, 9, -9, 9, -7, 3, -1, -3, 7, -9, 9, -9, 9, -7, 1, 1, -7, 9, -9, 9, -9, 7,
    -3, -1, 3, -7, 9, -9, 9, -7, 3, -1, -3, 7, -9, 9, -9, 9, -7, 3, 1, -3, 7, -9, 9, -9,
    7, -3, 1, 3, -7, 9, -9, 9, -9, 7, -3, -1, 7, -7, 9, -9, 9, -7, 3, 1, -3, 7, -9, 9,
    -9, 7, -3, 1, 3, -7, 9, -9, 9, -9, 7, -3, -1, 3, -7, 9, -9, 9, -7, 3, -1, -3, 7, -9,
    9, -9, 9, -7, 3, 1, -3, 7, -9, 9, -9, 7, -3, 1, 3, -7, 9, -9, 9, -7, 7, -1, -3, 7,
    -9
>>

\* np.cos(theta_r * 180 / np.pi): the argument handed to cos is theta_r
\* multiplied by 180/pi, as the source writes it.
CosCode(theta_r) ==
  LET k == IF theta_r[2] = 1 THEN 2 * theta_r[1] ELSE theta_r[1]
  IN  Rat(CosTable[k + 361], 10)

\* phi_r = beta + downtilt * np.cos(theta_r * 180 / np.pi)
PhiR(beta, downtilt, theta_r) == RAdd(beta, RMul(RInt(downtilt), CosCode(theta_r)))

(***************************************************************************)
(* Pattern store.  A pattern is {'angle': [...], 'gain': [...]}; the       *)
(* tables of the database hold one sample per integer degree from -180 to  *)
(* 179 (gain[0] at -180, gain[180] at boresight).                          *)
(***************************************************************************)

\* hor_pattern['angle'] = list(range(-180,180,1)); hor_pattern['gain'] = list(range(0,360,1))
RampPattern ==
  [angle |-> [i \in 1..360 |-> i - 181], gain |-> [i \in 1..360 |-> i - 1]]

\* An azimuth table relative to the peak: 0 dB at boresight, -30 dB at -180.
LobePattern ==
  [angle |-> [i \in 1..360 |-> i - 181],
   gain  |-> [i \in 1..360 |-> -(Abs(i - 181) \div 6)]]

\* An elevation table relative to the peak: 0 dB at the horizon, -45 dB at -180.
ElevationPattern ==
  [angle |-> [i \in 1..360 |-> i - 181],
   gain  |-> [i \in 1..360 |-> -(Abs(i - 181) \div 4)]]

\* The rows csv.DictReader yields from antennaPatternDatabase.csv.
AntDatabase ==
  << [antennaPatternId |-> 1, azimuthRadiationPattern |-> "ramp_az.csv",
      elevationRadiationPattern |-> "el.csv"],
     [antennaPatternId |-> 2, azimuthRadiationPattern |-> "lobe_az.csv",
      elevationRadiationPattern |-> "el.csv"] >>

\* The rows of the pattern file of that name, as angle and gain lists.
ReadPatternFile(filename) ==
  CASE filename = "ramp_az.csv" -> RampPattern
    [] filename = "lobe_az.csv" -> LobePattern
    [] OTHER -> ElevationPattern

(***************************************************************************)
(* Pattern lookup and interpolation.                                       *)
(***************************************************************************)
SetMin(S) == CHOOSE x \in S : \A y \in S : x <= y

\* [i for i, j in enumerate(lst) if j == key]
GetMultipleIndices(lst, key) ==
  IF key[2] # 1 THEN {} ELSE {i \in 1..Len(lst) : lst[i] = key[1]}

\* The first index among lo..hi of the sample closest to the angle on one
\* side of it (below: the greatest sample less than the angle; otherwise the
\* least sample greater than it); 0 when no sample of lo..hi lies on that
\* side.  The list is scanned by halves.
RECURSIVE NearestIndex(_, _, _, _, _)
NearestIndex(lst, angle, below, lo, hi) ==
  IF lo = hi
  THEN IF below
       THEN (IF lst[lo] * angle[2] < angle[1] THEN lo ELSE 0)
       ELSE (IF angle[1] < lst[lo] * angle[2] THEN lo ELSE 0)
  ELSE LET mid == (lo + hi) \div 2
           a == NearestIndex(lst, angle, below, lo, mid)
           b == NearestIndex(lst, angle, below, mid + 1, hi)
       IN  IF a = 0 THEN b
           ELSE IF b = 0 THEN a
           ELSE IF below
                THEN (IF lst[b] > lst[a] THEN b ELSE a)
                ELSE (IF lst[b] < lst[a] THEN b ELSE a)

\* A variant of the search below the angle that takes the first sample below
\* it, diff.index(diff_pos[0]), not the nearest; C11 tells it from the code.
IndexBelowFirst(lst, angle) ==
  LET below == {i \in 1..Len(lst) : lst[i] * angle[2] < angle[1]}
  IN  IF below = {} THEN 0 ELSE SetMin(below)

\* lst[diff.index(min(diff_pos))] for diff = [angle - i for i in lst]: the
\* index of the first sample at the least positive distance below the angle
\* (0 when diff_pos is empty, where min() raises).
IndexBelow(lst, angle) ==
  IF Len(lst) = 0 THEN 0 ELSE NearestIndex(lst, angle, TRUE, 1, Len(lst))

\* lst[diff.index(max(diff_neg))]: the index of the first sample at the least
\* distance above the angle (0 when diff_neg is empty, where max() raises).
IndexAbove(lst, angle) ==
  IF Len(lst) = 0 THEN 0 ELSE NearestIndex(lst, angle, FALSE, 1, Len(lst))

\* A variant of the lookup whose exact match reads the list of angles where
\* the code reads the list of gains; C10 tells it from the code.
GetGainAtAngleFromAngles(angle, pattern) ==
  LET angle_list == pattern.angle
      gain_list  == pattern.gain
      idx == GetMultipleIndices(angle_list, angle)
      m   == IndexBelow(angle_list, angle)
      m1  == IndexAbove(angle_list, angle)
  IN  IF idx # {}
      THEN [ok |-> TRUE, exact |-> TRUE, val |-> RInt(angle_list[SetMin(idx)])]
      ELSE IF m = 0 \/ m1 = 0
      THEN [ok |-> FALSE, exact |-> FALSE, val |-> RInt(0)]
      ELSE LET a_m  == RInt(angle_list[m])
               a_m1 == RInt(angle_list[m1])
               g_m  == RInt(gain_list[SetMin(GetMultipleIndices(angle_list, a_m))])
               g_m1 == RInt(gain_list[SetMin(GetMultipleIndices(angle_list, a_m1))])
           IN  [ok |-> TRUE, exact |-> FALSE,
                val |-> RDiv(RAdd(RMul(RSub(a_m1, angle), g_m),
                                  RMul(RSub(angle, a_m), g_m1)),
                             RSub(a_m1, a_m))]

\* The gain of a pattern at an angle: the sample when the angle is one,
\* otherwise the linear interpolation between the two nearest samples.
\* exact tells the two apart (the sample is a float of the list, the
\* interpolation an array when the angle is one); min() or max() of an empty
\* list raises ValueError.
GetGainAtAngle(angle, pattern) ==
  LET angle_list == pattern.angle
      gain_list  == pattern.gain
      idx == GetMultipleIndices(angle_list, angle)
      m   == IndexBelow(angle_list, angle)
      m1  == IndexAbove(angle_list, angle)
  IN  IF idx # {}
      THEN [ok |-> TRUE, exact |-> TRUE, val |-> RInt(gain_list[SetMin(idx)])]
      ELSE IF m = 0 \/ m1 = 0
      THEN [ok |-> FALSE, exact |-> FALSE, val |-> RInt(0)]
      ELSE LET a_m  == RInt(angle_list[m])
               a_m1 == RInt(angle_list[m1])
               g_m  == RInt(gain_list[SetMin(GetMultipleIndices(angle_list, a_m))])
               g_m1 == RInt(gain_list[SetMin(GetMultipleIndices(angle_list, a_m1))])
           IN  [ok |-> TRUE, exact |-> FALSE,
                val |-> RDiv(RAdd(RMul(RSub(a_m1, angle), g_m),
                                  RMul(RSub(angle, a_m), g_m1)),
                             RSub(a_m1, a_m))]

\* phi_r_supplementary_angle = 180 - phi_r ; [... >= 180] -= 360
SupplementaryAngle(phi_r) ==
  LET s == RSub(RInt(180), phi_r)
  IN  IF RLe(RInt(180), s) THEN RSub(s, RInt(360)) ELSE s

NoGain == [ok |-> TRUE, exact |-> TRUE, val |-> RInt(0)]

\* return g_h_theta_r, g_v_phi_r, g_v_phi_rsup (ok: no lookup raised)
GainsReturned(h, v, sup) ==
  [ok |-> h.ok /\ v.ok /\ sup.ok, g_h_theta_r |-> h, g_v_phi_r |-> v,
   g_v_phi_rsup |-> sup]

\* calculate_gain_from_given_patterns(dirs, hor_pattern, ver_pattern): a
\* pattern is <<>> for None and <<p>> otherwise; a gain that is not computed
\* stays the empty list (NoGain here, never read by the callers).
CalculateGainFromGivenPatterns(d, hor_pattern, ver_pattern) ==
  LET theta_r == d["hor"]
      phi_r   == d["ver"]
  IN  GainsReturned(
        IF hor_pattern # <<>> THEN GetGainAtAngle(theta_r, hor_pattern[1]) ELSE NoGain,
        IF ver_pattern # <<>> THEN GetGainAtAngle(phi_r, ver_pattern[1]) ELSE NoGain,
        IF ver_pattern # <<>>
        THEN GetGainAtAngle(SupplementaryAngle(phi_r), ver_pattern[1]) ELSE NoGain)

(***************************************************************************)
(* Synthetic gains.  An optional argument is <<>> for None and <<v>>       *)
(* otherwise.                                                              *)
(***************************************************************************)

\* A variant of the plane gain that floors the parabola at 20 dB whatever
\* ant_fbr is, as get_standard_antenna_gain does; C13 tells it from the code.
StandardPlaneGainFloor20(angle, beamwidth, driver, peak_ant_gain, ant_fbr) ==
  IF beamwidth = <<>> \/ driver = <<>> \/ beamwidth = <<0>> \/ beamwidth = <<360>>
  THEN [val |-> RInt(peak_ant_gain), is_array |-> TRUE]
  ELSE LET q == RDiv(angle, RInt(beamwidth[1]))
           p == RMul(RInt(12), RMul(q, q))
       IN  IF RLt(RInt(20), p)
           THEN [val |-> RInt(peak_ant_gain - 20), is_array |-> FALSE]
           ELSE [val |-> RSub(RInt(peak_ant_gain), p), is_array |-> TRUE]

\* One plane of get_standard_antenna_gains_hor_ver:
\*   peak_ant_gain * np.ones(shape)                  when isotropic,
\*   -min([12 * (angle / float(bw)) ** 2, ant_fbr]) + peak_ant_gain otherwise.
\* min() keeps its first item, the array, unless ant_fbr compares smaller,
\* and then yields the number ant_fbr itself.
StandardPlaneGain(angle, beamwidth, driver, peak_ant_gain, ant_fbr) ==
  LET fbr == IF ant_fbr = <<>> THEN 20 ELSE ant_fbr[1]
  IN  IF beamwidth = <<>> \/ driver = <<>> \/ beamwidth = <<0>> \/ beamwidth = <<360>>
      THEN [val |-> RInt(peak_ant_gain), is_array |-> TRUE]
      ELSE LET q == RDiv(angle, RInt(beamwidth[1]))
               p == RMul(RInt(12), RMul(q, q))
           IN  IF RLt(RInt(fbr), p)
               THEN [val |-> RInt(peak_ant_gain - fbr), is_array |-> FALSE]
               ELSE [val |-> RSub(RInt(peak_ant_gain), p), is_array |-> TRUE]

EmptyList == [val |-> RInt(0), is_array |-> FALSE]

\* get_standard_antenna_gains_hor_ver(dirs, ant_azimuth, peak_ant_gain,
\*   ant_mech_downtilt, ant_hor_beamwidth, ant_ver_beamwidth, ant_fbr)
GetStandardAntennaGainsHorVer(d, ant_azimuth, peak_ant_gain, ant_mech_downtilt, ant_hor_beamwidth, ant_ver_beamwidth, ant_fbr) ==
  [g_h_theta_r |->
     IF "hor" \in DOMAIN d
     THEN StandardPlaneGain(d["hor"], ant_hor_beamwidth, ant_azimuth, peak_ant_gain, ant_fbr)
     ELSE EmptyList,
   g_v_phi_r |->
     IF "ver" \in DOMAIN d
     THEN StandardPlaneGain(d["ver"], ant_ver_beamwidth, ant_mech_downtilt, peak_ant_gain, ant_fbr)
     ELSE EmptyList]

\* A variant of get_standard_antenna_gain whose isotropic case yields the
\* gain relative to the peak, np.zeros(hor_dirs.shape); C1 tells it from the
\* code.
GetStandardAntennaGainRelative(d, peak_ant_gain, ant_az, hor_beamwidth) ==
  IF hor_beamwidth = <<>> \/ ant_az = <<>> \/ hor_beamwidth = <<0>> \/ hor_beamwidth = <<360>>
  THEN RInt(0)
  ELSE LET bore_angle == Fold180(RSub(d["hor"], RInt(ant_az[1])))
           q == RDiv(bore_angle, RInt(hor_beamwidth[1]))
           g == RNeg(RMul(RInt(12), RMul(q, q)))
       IN  RAdd(IF RLt(g, RInt(-20)) THEN RInt(-20) ELSE g, RInt(peak_ant_gain))

\* get_standard_antenna_gain(dirs, peak_ant_gain, ant_az, hor_beamwidth), for a
\* scalar dirs['hor']: gains[0] is returned.
GetStandardAntennaGain(d, peak_ant_gain, ant_az, hor_beamwidth) ==
  IF hor_beamwidth = <<>> \/ ant_az = <<>> \/ hor_beamwidth = <<0>> \/ hor_beamwidth = <<360>>
  THEN RInt(peak_ant_gain)
  ELSE LET bore_angle == Fold180(RSub(d["hor"], RInt(ant_az[1])))
           q == RDiv(bore_angle, RInt(hor_beamwidth[1]))
           g == RNeg(RMul(RInt(12), RMul(q, q)))
       IN  RAdd(IF RLt(g, RInt(-20)) THEN RInt(-20) ELSE g, RInt(peak_ant_gain))

\* np.atleast_1d(x): the array of the one number when x is a scalar.
AtLeast1d(x, is_scalar) == IF is_scalar THEN <<x>> ELSE x

\* if is_scalar: return gains[0] ; return gains
Shaped(gains, is_scalar) ==
  [scalar |-> is_scalar, vals |-> IF is_scalar THEN <<gains[1]>> ELSE gains]

\* A variant of the array of gains whose floor of -20 is applied to the whole
\* array as soon as one element is below it; C14 tells it from the code.
StandardGainArrayFloorAll(hor_dirs, peak_ant_gain, ant_az, hor_beamwidth) ==
  IF hor_beamwidth = <<>> \/ ant_az = <<>> \/ hor_beamwidth = <<0>> \/ hor_beamwidth = <<360>>
  THEN [k \in 1..Len(hor_dirs) |-> RInt(peak_ant_gain)]
  ELSE LET bore_angle == [k \in 1..Len(hor_dirs) |->
                            Fold180(RSub(hor_dirs[k], RInt(ant_az[1])))]
           gains == [k \in 1..Len(hor_dirs) |->
                       RNeg(RMul(RInt(12),
                                 RMul(RDiv(bore_angle[k], RInt(hor_beamwidth[1])),
                                      RDiv(bore_angle[k], RInt(hor_beamwidth[1])))))]
       IN  [k \in 1..Len(hor_dirs) |->
              RAdd(IF \E j \in 1..Len(hor_dirs) : RLt(gains[j], RInt(-20))
                   THEN RInt(-20) ELSE gains[k],
                   RInt(peak_ant_gain))]

\* The array gains of get_standard_antenna_gain for the array hor_dirs:
\*   gains = peak_ant_gain * np.ones(hor_dirs.shape)               isotropic
\*   bore_angle = hor_dirs - ant_az, folded ; gains = -12 * (bore_angle / bw) ** 2
\*   gains[gains < -20] = -20. ; gains += peak_ant_gain           otherwise
StandardGainArray(hor_dirs, peak_ant_gain, ant_az, hor_beamwidth) ==
  IF hor_beamwidth = <<>> \/ ant_az = <<>> \/ hor_beamwidth = <<0>> \/ hor_beamwidth = <<360>>
  THEN [k \in 1..Len(hor_dirs) |-> RInt(peak_ant_gain)]
  ELSE LET bore_angle == [k \in 1..Len(hor_dirs) |->
                            Fold180(RSub(hor_dirs[k], RInt(ant_az[1])))]
           gains == [k \in 1..Len(hor_dirs) |->
                       RNeg(RMul(RInt(12),
                                 RMul(RDiv(bore_angle[k], RInt(hor_beamwidth[1])),
                                      RDiv(bore_angle[k], RInt(hor_beamwidth[1])))))]
       IN  [k \in 1..Len(hor_dirs) |->
              RAdd(IF RLt(gains[k], RInt(-20)) THEN RInt(-20) ELSE gains[k],
                   RInt(peak_ant_gain))]

(***************************************************************************)
(* 2-D combination.                                                        *)
(***************************************************************************)

\* A variant of the combination whose weight keeps the sign of the
\* direction, hor_dir / 180; C6 tells it from the code.
Get2dAntennaGainSigned(d, hor_gain, ver_gain, ver_gain_sup_angle, hor_gain_0, hor_gain_180, peak_ant_gain) ==
  LET hor_dir == d["hor"]
      w == RDiv(hor_dir, RInt(180))
      g_cbsd_relative ==
        RAdd(hor_gain,
             RAdd(RMul(RSub(RInt(1), w), RSub(ver_gain, hor_gain_0)),
                  RMul(w, RSub(ver_gain_sup_angle, hor_gain_180))))
  IN  RAdd(g_cbsd_relative, peak_ant_gain)

\* g_cbsd_relative = g_h_theta_r + ((1 - abs(hor_dir) / 180) * (g_v_phi_r - g_h_theta_0)
\*                                + (abs(hor_dir) / 180) * (g_v_phi_rsup - g_h_theta_180))
\* g_cbsd = g_cbsd_relative + g_0
Get2dAntennaGain(d, hor_gain, ver_gain, ver_gain_sup_angle, hor_gain_0, hor_gain_180, peak_ant_gain) ==
  LET hor_dir == d["hor"]
      w == RDiv(RAbs(hor_dir), RInt(180))
      g_cbsd_relative ==
        RAdd(hor_gain,
             RAdd(RMul(RSub(RInt(1), w), RSub(ver_gain, hor_gain_0)),
                  RMul(w, RSub(ver_gain_sup_angle, hor_gain_180))))
  IN  RAdd(g_cbsd_relative, peak_ant_gain)

(***************************************************************************)
(* The gain methods.  Each yields what the call does: the gain returned    *)
(* (is_array: an ndarray, as opposed to a float) or the exception raised,  *)
(* and the locals of the call the properties speak about.                  *)
(***************************************************************************)
MethodReturned(m, gain, is_array, loc) ==
  [method |-> m, status |-> "returned", error |-> "none", gain |-> gain,
   is_array |-> is_array, locals |-> loc]

MethodRaised(m, err, loc) ==
  [method |-> m, status |-> "raised", error |-> err, gain |-> RInt(0),
   is_array |-> FALSE, locals |-> loc]

DirsOf(hor, ver) == ("hor" :> hor) @@ ("ver" :> ver)

\* Step b of method B1: the 2-D gain from the three gains g looked up in the
\* patterns; a float when all three are samples, since dirs is a scalar.
B1TwoDimensionalGain(d, peak_ant_gain, hor_pattern, g, loc) ==
  IF ~g.ok THEN MethodRaised("B1", "ValueError", loc)
  ELSE IF Len(hor_pattern.gain) < 181 THEN MethodRaised("B1", "IndexError", loc)
  ELSE MethodReturned("B1",
         Get2dAntennaGain(d, g.g_h_theta_r.val, g.g_v_phi_r.val, g.g_v_phi_rsup.val,
                          RInt(hor_pattern.gain[181]), RInt(hor_pattern.gain[1]),
                          RInt(peak_ant_gain)),
         ~(g.g_h_theta_r.exact /\ g.g_v_phi_r.exact /\ g.g_v_phi_rsup.exact),
         loc)

\* antenna_gain_method_b1(dirs, ant_az, peak_ant_gain, hor_pattern, ver_pattern, downtilt)
AntennaGainMethodB1(d, ant_az, peak_ant_gain, hor_pattern, ver_pattern, downtilt) ==
  LET theta_r == Fold180(RSub(d["hor"], RInt(ant_az)))
      dt      == LimitDowntilt(downtilt)
      phi_r   == PhiR(d["ver"], dt, theta_r)
      dirs_relative_boresight == DirsOf(theta_r, phi_r)
  IN  B1TwoDimensionalGain(d, peak_ant_gain, hor_pattern,
        CalculateGainFromGivenPatterns(dirs_relative_boresight,
                                       <<hor_pattern>>, <<ver_pattern>>),
        [theta_r |-> theta_r, phi_r |-> phi_r, downtilt |-> dt,
         phi_r_sup |-> SupplementaryAngle(phi_r), hor_dir |-> d["hor"]])

\* antenna_gain_method_c(dirs, ant_az, peak_ant_gain, downtilt, hor_beamwidth, ver_beamwidth, fbr)
AntennaGainMethodC(d, ant_az, peak_ant_gain, downtilt, hor_beamwidth, ver_beamwidth, fbr) ==
  LET theta_r == Fold180(RSub(d["hor"], RInt(ant_az)))
      phi_r   == PhiR(d["ver"], downtilt, theta_r)
      dt      == LimitDowntilt(downtilt)
      dirs_relative_boresight == DirsOf(theta_r, phi_r)
      g    == GetStandardAntennaGainsHorVer(dirs_relative_boresight, <<ant_az>>,
                peak_ant_gain, <<dt>>, <<hor_beamwidth>>, <<ver_beamwidth>>, <<fbr>>)
      phi_r_sup == RSub(RInt(180), phi_r)
      g0   == GetStandardAntennaGainsHorVer("hor" :> RInt(0), <<ant_az>>, peak_ant_gain,
                <<>>, <<hor_beamwidth>>, <<>>, <<fbr>>).g_h_theta_r
      g180 == GetStandardAntennaGainsHorVer("hor" :> RInt(180), <<ant_az>>, peak_ant_gain,
                <<>>, <<hor_beamwidth>>, <<>>, <<fbr>>).g_h_theta_r
      gsup == GetStandardAntennaGainsHorVer("ver" :> phi_r_sup, <<ant_az>>, peak_ant_gain,
                <<dt>>, <<>>, <<ver_beamwidth>>, <<fbr>>).g_v_phi_r
      loc  == [theta_r |-> theta_r, phi_r |-> phi_r, downtilt |-> dt,
               phi_r_sup |-> phi_r_sup, hor_dir |-> d["hor"]]
  IN  MethodReturned("C",
        Get2dAntennaGain(d, g.g_h_theta_r.val, g.g_v_phi_r.val, gsup.val, g0.val,
                         g180.val, RInt(peak_ant_gain)),
        g.g_h_theta_r.is_array \/ g.g_v_phi_r.is_array \/ gsup.is_array
          \/ g0.is_array \/ g180.is_array,
        loc)

\* antenna_gain_method_d(dirs, ant_az, peak_ant_gain, hor_patt, downtilt, ver_beamwidth, fbr)
AntennaGainMethodD(d, ant_az, peak_ant_gain, hor_patt, downtilt, ver_beamwidth, fbr) ==
  LET theta_r == Fold180(RSub(d["hor"], RInt(ant_az)))
      phi_r   == PhiR(d["ver"], downtilt, theta_r)
      dt      == LimitDowntilt(downtilt)
      dirs_relative_boresight == DirsOf(theta_r, phi_r)
      phi_r_sup == RSub(RInt(180), phi_r)
      h    == CalculateGainFromGivenPatterns(dirs_relative_boresight, <<hor_patt>>, <<>>)
      gv   == GetStandardAntennaGainsHorVer(dirs_relative_boresight, <<ant_az>>,
                peak_ant_gain, <<dt>>, <<>>, <<ver_beamwidth>>, <<fbr>>).g_v_phi_r
      gsup == GetStandardAntennaGainsHorVer("ver" :> phi_r_sup, <<ant_az>>, peak_ant_gain,
                <<dt>>, <<>>, <<ver_beamwidth>>, <<fbr>>).g_v_phi_r
      loc  == [theta_r |-> theta_r, phi_r |-> phi_r, downtilt |-> dt,
               phi_r_sup |-> phi_r_sup, hor_dir |-> dirs_relative_boresight["hor"]]
  IN  IF ~h.ok THEN MethodRaised("D", "ValueError", loc)
      ELSE IF Len(hor_patt.gain) < 181 THEN MethodRaised("D", "IndexError", loc)
      ELSE MethodReturned("D",
             Get2dAntennaGain(dirs_relative_boresight, h.g_h_theta_r.val, gv.val, gsup.val,
                              RInt(hor_patt.gain[181]), RInt(hor_patt.gain[1]),
                              RInt(peak_ant_gain)),
             TRUE, loc)

\* A variant of method E that reads G_H(0) from gain[0] and G_H(180) from
\* gain[180]; C29 tells it from the code.
AntennaGainMethodEFromStart(d, ant_az, peak_ant_gain, hor_patt) ==
  LET theta_r == Fold180(RSub(d["hor"], RInt(ant_az)))
      dirs_relative_boresight == DirsOf(theta_r, RInt(0))
      h   == CalculateGainFromGivenPatterns(dirs_relative_boresight, <<hor_patt>>, <<>>)
      loc == [theta_r |-> theta_r, phi_r |-> dirs_relative_boresight["ver"],
              hor_dir |-> dirs_relative_boresight["hor"]]
  IN  IF ~h.ok THEN MethodRaised("E", "ValueError", loc)
      ELSE IF Len(hor_patt.gain) < 181 THEN MethodRaised("E", "IndexError", loc)
      ELSE MethodReturned("E",
             Get2dAntennaGain(dirs_relative_boresight, h.g_h_theta_r.val, RInt(0), RInt(0),
                              RInt(hor_patt.gain[1]), RInt(hor_patt.gain[181]),
                              RInt(peak_ant_gain)),
             TRUE, loc)

\* antenna_gain_method_e(dirs, ant_az, peak_ant_gain, hor_patt)
AntennaGainMethodE(d, ant_az, peak_ant_gain, hor_patt) ==
  LET theta_r == Fold180(RSub(d["hor"], RInt(ant_az)))
      dirs_relative_boresight == DirsOf(theta_r, RInt(0))
      h   == CalculateGainFromGivenPatterns(dirs_relative_boresight, <<hor_patt>>, <<>>)
      loc == [theta_r |-> theta_r, phi_r |-> dirs_relative_boresight["ver"],
              hor_dir |-> dirs_relative_boresight["hor"]]
  IN  IF ~h.ok THEN MethodRaised("E", "ValueError", loc)
      ELSE IF Len(hor_patt.gain) < 181 THEN MethodRaised("E", "IndexError", loc)
      ELSE MethodReturned("E",
             Get2dAntennaGain(dirs_relative_boresight, h.g_h_theta_r.val, RInt(0), RInt(0),
                              RInt(hor_patt.gain[181]), RInt(hor_patt.gain[1]),
                              RInt(peak_ant_gain)),
             TRUE, loc)

\* antenna_gain_method_f(dirs, peak_ant_gain, ant_az=None, hor_beamwidth=None)
AntennaGainMethodF(d, peak_ant_gain, ant_az, hor_beamwidth) ==
  MethodReturned("F", GetStandardAntennaGain(d, peak_ant_gain, ant_az, hor_beamwidth),
                 FALSE,
                 [hor_dir |-> d["hor"]])

(***************************************************************************)
(* The gain functions of the library, src/lib/antenna/antenna.py.  Its     *)
(* helpers get_given_2d_pattern_gains, get_standard_2d_gains and           *)
(* get_2d_antenna_gain have, statement for statement, the text of          *)
(* calculate_gain_from_given_patterns, get_standard_antenna_gains_hor_ver  *)
(* and get_2d_antenna_gain above; limit_downtilt_value is LimitDowntilt.   *)
(***************************************************************************)

\* get_dirs_relative_boresight(dirs, ant_az, downtilt) of the library:
\* downtilt is <<>> for None, and then "ver" stays 0.
GetDirsRelativeBoresight(d, ant_az, downtilt) ==
  LET theta_r == Fold180(RSub(d["hor"], RInt(ant_az)))
      phi_r   == IF downtilt # <<>> THEN PhiR(d["ver"], downtilt[1], theta_r)
                 ELSE RInt(0)
  IN  DirsOf(theta_r, phi_r)

\* b1_antenna_gain(dirs, ant_az, peak_ant_gain, hor_pattern, ver_pattern, downtilt)
B1AntennaGain(d, ant_az, peak_ant_gain, hor_pattern, ver_pattern, downtilt) ==
  LET dirs_relative_boresight == GetDirsRelativeBoresight(d, ant_az, <<downtilt>>)
      dt == LimitDowntilt(downtilt)
  IN  B1TwoDimensionalGain(d, peak_ant_gain, hor_pattern,
        CalculateGainFromGivenPatterns(dirs_relative_boresight,
                                       <<hor_pattern>>, <<ver_pattern>>),
        [theta_r |-> dirs_relative_boresight["hor"],
         phi_r |-> dirs_relative_boresight["ver"], downtilt |-> dt,
         phi_r_sup |-> SupplementaryAngle(dirs_relative_boresight["ver"]),
         hor_dir |-> d["hor"]])

\* c_antenna_gain(dirs, ant_az, peak_ant_gain, downtilt, hor_beamwidth, ver_beamwidth, fbr)
CAntennaGain(d, ant_az, peak_ant_gain, downtilt, hor_beamwidth, ver_beamwidth, fbr) ==
  LET dirs_relative_boresight == GetDirsRelativeBoresight(d, ant_az, <<downtilt>>)
      dt   == LimitDowntilt(downtilt)
      g    == GetStandardAntennaGainsHorVer(dirs_relative_boresight, <<ant_az>>,
                peak_ant_gain, <<dt>>, <<hor_beamwidth>>, <<ver_beamwidth>>, <<fbr>>)
      phi_r == dirs_relative_boresight["ver"]
      g0   == GetStandardAntennaGainsHorVer("hor" :> RInt(0), <<ant_az>>, peak_ant_gain,
                <<>>, <<hor_beamwidth>>, <<>>, <<fbr>>).g_h_theta_r
      g180 == GetStandardAntennaGainsHorVer("hor" :> RInt(180), <<ant_az>>, peak_ant_gain,
                <<>>, <<hor_beamwidth>>, <<>>, <<fbr>>).g_h_theta_r
      gsup == GetStandardAntennaGainsHorVer("ver" :> RSub(RInt(180), phi_r), <<ant_az>>,
                peak_ant_gain, <<dt>>, <<>>, <<ver_beamwidth>>, <<fbr>>).g_v_phi_r
  IN  MethodReturned("C",
        Get2dAntennaGain(d, g.g_h_theta_r.val, g.g_v_phi_r.val, gsup.val, g0.val,
                         g180.val, RInt(peak_ant_gain)),
        g.g_h_theta_r.is_array \/ g.g_v_phi_r.is_array \/ gsup.is_array
          \/ g0.is_array \/ g180.is_array,
        [theta_r |-> dirs_relative_boresight["hor"], phi_r |-> phi_r, downtilt |-> dt,
         phi_r_sup |-> RSub(RInt(180), phi_r), hor_dir |-> d["hor"]])

\* The last steps of d_antenna_gain and e_antenna_gain: G_H(0), G_H(180) from
\* the pattern and the combination at the relative direction drb.
LibraryCombined(m, drb, peak_ant_gain, hor_patt, h, gv, gsup, loc) ==
  IF ~h.ok THEN MethodRaised(m, "ValueError", loc)
  ELSE IF Len(hor_patt.gain) < 181 THEN MethodRaised(m, "IndexError", loc)
  ELSE MethodReturned(m,
         Get2dAntennaGain(drb, h.g_h_theta_r.val, gv, gsup,
                          RInt(hor_patt.gain[181]), RInt(hor_patt.gain[1]),
                          RInt(peak_ant_gain)),
         TRUE, loc)

\* d_antenna_gain(dirs, ant_az, peak_ant_gain, hor_patt, downtilt, ver_beamwidth, fbr)
DAntennaGain(d, ant_az, peak_ant_gain, hor_patt, downtilt, ver_beamwidth, fbr) ==
  LET dirs_relative_boresight == GetDirsRelativeBoresight(d, ant_az, <<downtilt>>)
      dt    == LimitDowntilt(downtilt)
      phi_r == dirs_relative_boresight["ver"]
  IN  LibraryCombined("D", dirs_relative_boresight, peak_ant_gain, hor_patt,
        CalculateGainFromGivenPatterns(dirs_relative_boresight, <<hor_patt>>, <<>>),
        GetStandardAntennaGainsHorVer(dirs_relative_boresight, <<ant_az>>,
          peak_ant_gain, <<dt>>, <<>>, <<ver_beamwidth>>, <<fbr>>).g_v_phi_r.val,
        GetStandardAntennaGainsHorVer("ver" :> RSub(RInt(180), phi_r), <<ant_az>>,
          peak_ant_gain, <<dt>>, <<>>, <<ver_beamwidth>>, <<fbr>>).g_v_phi_r.val,
        [theta_r |-> dirs_relative_boresight["hor"], phi_r |-> phi_r, downtilt |-> dt,
         phi_r_sup |-> RSub(RInt(180), phi_r),
         hor_dir |-> dirs_relative_boresight["hor"]])

\* e_antenna_gain(dirs, ant_az, peak_ant_gain, hor_patt)
EAntennaGain(d, ant_az, peak_ant_gain, hor_patt) ==
  LET dirs_relative_boresight == GetDirsRelativeBoresight(d, ant_az, <<>>)
  IN  LibraryCombined("E", dirs_relative_boresight, peak_ant_gain, hor_patt,
        CalculateGainFromGivenPatterns(dirs_relative_boresight, <<hor_patt>>, <<>>),
        RInt(0), RInt(0),
        [theta_r |-> dirs_relative_boresight["hor"],
         phi_r |-> dirs_relative_boresight["ver"],
         hor_dir |-> dirs_relative_boresight["hor"]])

(***************************************************************************)
(* The method dispatcher.  tx['installationParam'] is a dict: a function   *)
(* whose domain is the set of keys present.  'antennaModel' is a dict with *)
(* the optional keys 'horizontalPattern' and 'verticalPattern', each an    *)
(* empty dict or {'antennaPatternId': id}.                                 *)
(***************************************************************************)

\* k in ip
HasKey(ip, k) == k \in DOMAIN ip

\* A variant of the test that asks for the key alone, k in ip; C5 tells it
\* from the code.
IsSetKeyOnly(ip, k) == HasKey(ip, k)

\* k in ip and ip[k], for a number
IsSet(ip, k) == HasKey(ip, k) /\ ip[k] # 0

\* k in d and d[k], for a dict
IsSetDict(d, k) == HasKey(d, k) /\ DOMAIN d[k] # {}

\* A variant of the default that also records a downtilt of 0 where none is
\* given; C27 tells it from the code.
WithFrontToBackRatioAndDowntilt(ip) ==
  [k \in DOMAIN ip \cup {"frontToBackRatio", "antennaDowntilt"} |->
     IF k = "frontToBackRatio" THEN 20
     ELSE IF k \in DOMAIN ip THEN ip[k] ELSE 0]

\* tx['installationParam']['frontToBackRatio'] = 20
WithFrontToBackRatio(ip) ==
  [k \in DOMAIN ip \cup {"frontToBackRatio"} |->
     IF k = "frontToBackRatio" THEN 20 ELSE ip[k]]

\* for i, dic in enumerate(ant_database): if dic['antennaPatternId'] == antennaPatternId:
\*   patt_filename = ... + dic['azimuthRadiationPattern'] ; break
\* <<>> when no row matches: patt_filename is then never bound.
PattFilename(ant_database, antennaPatternId) ==
  LET rows == {i \in 1..Len(ant_database) :
                 ant_database[i].antennaPatternId = antennaPatternId}
  IN  IF rows = {} THEN <<>>
      ELSE <<ant_database[SetMin(rows)].azimuthRadiationPattern>>

\* method(...)[0] : element 0 of the ndarray a method returns; a float cannot
\* be subscripted (TypeError); an exception of the method propagates.
Subscript0(m) ==
  IF m.status = "raised" THEN [status |-> "raised", error |-> m.error, gain |-> RInt(0)]
  ELSE IF ~m.is_array THEN [status |-> "raised", error |-> "TypeError", gain |-> RInt(0)]
  ELSE [status |-> "returned", error |-> "none", gain |-> m.gain]

\* return gain, for the float method F returns
Unsubscripted(m) == [status |-> m.status, error |-> m.error, gain |-> m.gain]

\* What a call of the dispatcher comes to: the installation record as the
\* call leaves it, the methods invoked in order with what each yielded, and
\* the gain returned or the exception raised.
EapResult(t, invoked, r) ==
  [tx |-> t, invoked |-> invoked, status |-> r.status, error |-> r.error, gain |-> r.gain]

\* gain = method(...)[0] ; return gain, for the one method m invoked
Subscripted(t, m) == EapResult(t, <<m>>, Subscript0(m))

\* gain = antenna_gain_method_f(...) ; return gain
Plain(t, m) == EapResult(t, <<m>>, Unsubscripted(m))

\* calculate_antenna_gain_EAP(tx, rx), from the incidence angles d that
\* wf_itm.CalcItmPropagationLoss yields for the pair.
CalculateAntennaGainEAP(t, d, ant_database) ==
  LET ip0 == t.installationParam
  IN
  IF ~HasKey(ip0, "azimuth") \/ ip0["azimuth"] = 0
  THEN Plain(t, AntennaGainMethodF(d, ip0["antennaGain"], <<>>, <<>>))
  ELSE
  LET ip == IF ~HasKey(ip0, "frontToBackRatio") \/ ip0["frontToBackRatio"] = 0
            THEN WithFrontToBackRatio(ip0) ELSE ip0
      t1 == [t EXCEPT !.installationParam = ip]
      hasHor == /\ IsSetDict(ip, "antennaModel")
                /\ IsSetDict(ip["antennaModel"], "horizontalPattern")
  IN
  IF hasHor
  THEN
    LET antennaModel  == ip["antennaModel"]
        patt_filename == PattFilename(ant_database,
                           antennaModel["horizontalPattern"].antennaPatternId)
    IN
    IF patt_filename = <<>>
    THEN EapResult(t1, <<>>,
                   [status |-> "raised", error |-> "UnboundLocalError", gain |-> RInt(0)])
    ELSE
    LET hor_pattern == ReadPatternFile(patt_filename[1])
    IN
    IF IsSet(ip, "antennaDowntilt") /\ IsSetDict(antennaModel, "verticalPattern")
    THEN LET ver_pattern == ReadPatternFile(patt_filename[1])
         IN  Subscripted(t1, AntennaGainMethodB1(d, ip["azimuth"], ip["antennaGain"],
                                                 hor_pattern, ver_pattern,
                                                 ip["antennaDowntilt"]))
    ELSE IF IsSet(ip, "antennaDowntilt") /\ IsSet(ip, "antennaVerticalBeamwidth")
    THEN Subscripted(t1, AntennaGainMethodD(d, ip["azimuth"], ip["antennaGain"], hor_pattern,
                                     ip["antennaDowntilt"], ip["antennaVerticalBeamwidth"],
                                     ip["frontToBackRatio"]))
    ELSE Subscripted(t1, AntennaGainMethodE(d, ip["azimuth"], ip["antennaGain"], hor_pattern))
  ELSE
  IF /\ HasKey(ip, "antennaBeamwidth") /\ HasKey(ip, "antennaDowntilt")
     /\ HasKey(ip, "antennaVerticalBeamwidth")
     /\ ip["antennaBeamwidth"] # 0 /\ ip["antennaDowntilt"] # 0
     /\ ip["antennaVerticalBeamwidth"] # 0
  THEN Subscripted(t1, AntennaGainMethodC(d, ip["antennaGain"], ip["azimuth"],
                                   ip["antennaDowntilt"], ip["antennaBeamwidth"],
                                   ip["antennaVerticalBeamwidth"], ip["frontToBackRatio"]))
  ELSE Plain(t1, AntennaGainMethodF(d, ip["antennaGain"], <<>>, <<>>))

(***************************************************************************)
(* Specification Spec: one call of calculate_antenna_gain_EAP on an        *)
(* installation drawn from the combinations of absent, zero and non-zero   *)
(* registration fields.                                                    *)
(***************************************************************************)

\* An optional field: <<>> when the key is absent, <<v>> when it holds v.
Optional(S) == {<<>>} \cup {<<v>> : v \in S}

\* The dict of the keys that are given.
DictOf(opt) == [k \in {x \in DOMAIN opt : opt[x] # <<>>} |-> opt[k][1]]

\* A pattern reference: {} for code 0, {'antennaPatternId': code} otherwise.
PatternRef(code) == IF code = 0 THEN <<>> ELSE [antennaPatternId |-> code]

AntennaModels ==
  { <<>> } \cup
  { DictOf([horizontalPattern |-> IF h = <<>> THEN <<>> ELSE <<PatternRef(h[1])>>,
            verticalPattern   |-> IF v = <<>> THEN <<>> ELSE <<PatternRef(v[1])>>]) :
      h \in Optional({0, 1, 9}), v \in Optional({0, 2}) }

Installations ==
  { [installationParam |->
       DictOf([antennaGain |-> <<gain>>, azimuth |-> az, frontToBackRatio |-> fbr,
               antennaDowntilt |-> dt, antennaVerticalBeamwidth |-> vbw,
               antennaBeamwidth |-> bw, antennaModel |-> am])] :
      gain \in {6, 10}, az \in Optional({0, 20}), fbr \in Optional({0, 10}),
      dt \in Optional({0, 5}), vbw \in Optional({0, 60}),
      bw \in Optional({0, 120}),
      am \in {<<>>} \cup {<<m>> : m \in AntennaModels} }

\* The incidence angles (hor_cbsd, ver_cbsd) of the ray at the CBSD.
IncidenceAngles ==
  { DirsOf(RInt(20), RInt(0)), DirsOf(RInt(100), RInt(-5)),
    DirsOf(RInt(200), RInt(0)), DirsOf(Rat(41, 2), Rat(1, 2)) }

Receiver == [latitude |-> 38, longitude |-> -120, height |-> 40]

Pending == [status |-> "pending"]

Init ==
  /\ pc = "start"
  /\ tx \in Installations
  /\ rx = Receiver
  /\ dirs \in IncidenceAngles
  /\ call = [fn |-> "calculate_antenna_gain_EAP"]
  /\ out = Pending

\* The call leaves the installation record as r.tx and yields the rest of r.
Leaves(r) ==
  /\ tx' = r.tx
  /\ out' = [status |-> r.status, error |-> r.error, gain |-> r.gain,
             invoked |-> r.invoked]

Eap ==
  /\ pc = "start"
  /\ call.fn = "calculate_antenna_gain_EAP"
  /\ Leaves(CalculateAntennaGainEAP(tx, dirs, AntDatabase))
  /\ pc' = "done"
  /\ UNCHANGED <<rx, dirs, call>>

Next == Eap

Spec == Init /\ [][Next]_vars

(***************************************************************************)
(* Specification SpecMethods: one direct call of a gain method.            *)
(***************************************************************************)
NoInstallation == [installationParam |-> <<>>]

\* Directions handed to the methods.  The vertical directions are whole
\* degrees (see CosTable).
MethodDirs ==
  { DirsOf(h, RInt(v)) :
      h \in {RInt(0), RInt(20), Rat(41, 2), RInt(100), RInt(200)}, v \in {0, -5, 30} }

MethodCall(fn, ant_az, peak, downtilt, hbw, vbw, fbr, hp, vp) ==
  [fn |-> fn, ant_az |-> ant_az, peak_ant_gain |-> peak, downtilt |-> downtilt,
   hor_beamwidth |-> hbw, ver_beamwidth |-> vbw, fbr |-> fbr,
   hor_pattern |-> hp, ver_pattern |-> vp]

Azimuths == {0, 20, 180}
Peaks == {0, 10}
Downtilts == {0, 5, 20, -20}
AzFiles == {"ramp_az.csv", "lobe_az.csv"}

MethodCalls ==
  { MethodCall("antenna_gain_method_b1", az, pk, dt, 0, 0, 0, hp, "el.csv") :
      az \in Azimuths, pk \in Peaks, dt \in Downtilts, hp \in AzFiles }
  \cup
  { MethodCall("antenna_gain_method_c", az, pk, dt, hbw, vbw, fbr, "none", "none") :
      az \in Azimuths, pk \in Peaks, dt \in Downtilts, hbw \in {120, 360},
      vbw \in {60, 30}, fbr \in {10, 30} }
  \cup
  { MethodCall("antenna_gain_method_d", az, pk, dt, 0, vbw, fbr, hp, "none") :
      az \in Azimuths, pk \in Peaks, dt \in Downtilts, vbw \in {60, 30},
      fbr \in {10, 30}, hp \in AzFiles }
  \cup
  { MethodCall("antenna_gain_method_e", az, pk, 0, 0, 0, 0, hp, "none") :
      az \in Azimuths, pk \in Peaks, hp \in AzFiles }
  \cup
  { MethodCall("antenna_gain_method_f", az, pk, 0, hbw, 0, 0, "none", "none") :
      az \in Azimuths, pk \in Peaks, hbw \in {0, 100, 120, 360} }

\* The library function that has taken the place of a method of the harness.
LibraryName(fn) ==
  CASE fn = "antenna_gain_method_b1" -> "b1_antenna_gain"
    [] fn = "antenna_gain_method_c" -> "c_antenna_gain"
    [] fn = "antenna_gain_method_d" -> "d_antenna_gain"
    [] fn = "antenna_gain_method_e" -> "e_antenna_gain"

\* The library functions are called with the arguments of the methods.
LibraryCalls ==
  { [c EXCEPT !.fn = LibraryName(c.fn)] :
      c \in {m \in MethodCalls : m.fn # "antenna_gain_method_f"} }

InitMethods ==
  /\ pc = "start"
  /\ tx = NoInstallation
  /\ rx = Receiver
  /\ dirs \in MethodDirs
  /\ call \in MethodCalls \cup LibraryCalls
  /\ out = Pending

Called(fn, result) ==
  /\ pc = "start"
  /\ call.fn = fn
  /\ out' = result
  /\ pc' = "done"
  /\ UNCHANGED <<tx, rx, dirs, call>>

CallB1 ==
  Called("antenna_gain_method_b1",
         AntennaGainMethodB1(dirs, call.ant_az, call.peak_ant_gain,
                             ReadPatternFile(call.hor_pattern),
                             ReadPatternFile(call.ver_pattern), call.downtilt))

CallC ==
  Called("antenna_gain_method_c",
         AntennaGainMethodC(dirs, call.ant_az, call.peak_ant_gain, call.downtilt,
                            call.hor_beamwidth, call.ver_beamwidth, call.fbr))

CallD ==
  Called("antenna_gain_method_d",
         AntennaGainMethodD(dirs, call.ant_az, call.peak_ant_gain,
                            ReadPatternFile(call.hor_pattern), call.downtilt,
                            call.ver_beamwidth, call.fbr))

CallE ==
  Called("antenna_gain_method_e",
         AntennaGainMethodE(dirs, call.ant_az, call.peak_ant_gain,
                            ReadPatternFile(call.hor_pattern)))

CallF ==
  Called("antenna_gain_method_f",
         AntennaGainMethodF(dirs, call.peak_ant_gain, <<call.ant_az>>,
                            <<call.hor_beamwidth>>))

CallLibraryB1 ==
  Called("b1_antenna_gain",
         B1AntennaGain(dirs, call.ant_az, call.peak_ant_gain,
                       ReadPatternFile(call.hor_pattern),
                       ReadPatternFile(call.ver_pattern), call.downtilt))

CallLibraryC ==
  Called("c_antenna_gain",
         CAntennaGain(dirs, call.ant_az, call.peak_ant_gain, call.downtilt,
                      call.hor_beamwidth, call.ver_beamwidth, call.fbr))

CallLibraryD ==
  Called("d_antenna_gain",
         DAntennaGain(dirs, call.ant_az, call.peak_ant_gain,
                      ReadPatternFile(call.hor_pattern), call.downtilt,
                      call.ver_beamwidth, call.fbr))

CallLibraryE ==
  Called("e_antenna_gain",
         EAntennaGain(dirs, call.ant_az, call.peak_ant_gain,
                      ReadPatternFile(call.hor_pattern)))

NextMethods ==
  \/ CallB1 \/ CallC \/ CallD \/ CallE \/ CallF
  \/ CallLibraryB1 \/ CallLibraryC \/ CallLibraryD \/ CallLibraryE

SpecMethods == InitMethods /\ [][NextMethods]_vars

(***************************************************************************)
(* Specification SpecFunctions: one call of a helper function.             *)
(***************************************************************************)

MaxTurns == 2
MaxLen == 3

\* Directions and azimuths "within [0..360] degrees", every ten degrees.
Compass == {10 * i : i \in 0..35}
CompassDirs == {DirsOf(RInt(h), RInt(0)) : h \in Compass}
BoresightCalls ==
  { [fn |-> "get_dirs_relative_boresight", ant_az |-> az, turns |-> k, downtilt |-> <<>>] :
      az \in Compass, k \in (0 - MaxTurns)..MaxTurns }

\* Calls with a downtilt, towards the boresight, the two sides and the back.
TiltDirs == {DirsOf(RInt(h), RInt(v)) : h \in {0, 90, 180, 270}, v \in {0, -5}}
TiltCalls ==
  { [fn |-> "get_dirs_relative_boresight", ant_az |-> az, turns |-> 0, downtilt |-> <<dt>>] :
      az \in {0, 90}, dt \in {0, 5, -15} }

\* Patterns of up to MaxLen samples, in any order, repeated angles included.
SmallPatterns ==
  UNION { { [angle |-> a, gain |-> g] : a \in [1..n -> {-2, 0, 3}], g \in [1..n -> {0, 5}] } :
          n \in 1..MaxLen }
QueryDirs ==
  {DirsOf(q, RInt(0)) : q \in {RInt(-2), RInt(-1), RInt(0), Rat(1, 2), RInt(1), RInt(3), RInt(4)}}
PatternCalls ==
  { [fn |-> "calculate_gain_from_given_patterns", hor_pattern |-> p] : p \in SmallPatterns }

\* The pattern of the tests, one sample a degree from -180 to 179, asked at
\* both ends of the range of the fold and in between.
CanonicalDirs ==
  {DirsOf(q, RInt(0)) : q \in {RInt(-180), Rat(41, 2), RInt(179), Rat(359, 2), RInt(180)}}
CanonicalCalls ==
  { [fn |-> "calculate_gain_from_given_patterns", hor_pattern |-> RampPattern] }

BlendDirs ==
  {DirsOf(h, RInt(0)) : h \in {RInt(0), RInt(45), RInt(-60), Rat(41, 2), RInt(180), RInt(-180)}}
BlendCalls ==
  { [fn |-> "get_2d_antenna_gain", hor_gain |-> RInt(hg), ver_gain |-> RInt(vg),
     ver_gain_sup_angle |-> RInt(vs), hor_gain_0 |-> RInt(h0),
     hor_gain_180 |-> RInt(h180), peak_ant_gain |-> RInt(pk)] :
      hg \in {0, -3}, vg \in {0, -1}, vs \in {-20, -7}, h0 \in {0, 2},
      h180 \in {-30, -20}, pk \in {0, 10} }

InitFunctions ==
  /\ pc = "start"
  /\ tx = NoInstallation
  /\ rx = Receiver
  /\ \/ call \in BoresightCalls /\ dirs \in CompassDirs
     \/ call \in TiltCalls /\ dirs \in TiltDirs
     \/ call \in PatternCalls /\ dirs \in QueryDirs
     \/ call \in CanonicalCalls /\ dirs \in CanonicalDirs
     \/ call \in BlendCalls /\ dirs \in BlendDirs
  /\ out = Pending

\* The boresight-relative direction, and the one of the same direction given
\* as many whole turns further as the call says.
CallGetDirsRelativeBoresight ==
  /\ pc = "start"
  /\ call.fn = "get_dirs_relative_boresight"
  /\ LET turned == DirsOf(RAdd(dirs["hor"], RInt(360 * call.turns)), dirs["ver"])
     IN  out' = [status |-> "returned",
                 theta_r |-> GetDirsRelativeBoresight(dirs, call.ant_az, call.downtilt)["hor"],
                 phi_r |-> GetDirsRelativeBoresight(dirs, call.ant_az, call.downtilt)["ver"],
                 theta_r_turned |->
                   GetDirsRelativeBoresight(turned, call.ant_az, call.downtilt)["hor"]]
  /\ pc' = "done"
  /\ UNCHANGED <<tx, rx, dirs, call>>

CallCalculateGainFromGivenPatterns ==
  /\ pc = "start"
  /\ call.fn = "calculate_gain_from_given_patterns"
  /\ LET r == CalculateGainFromGivenPatterns(dirs, <<call.hor_pattern>>, <<>>)
     IN  out' = [status |-> IF r.ok THEN "returned" ELSE "raised",
                 g_h_theta_r |-> r.g_h_theta_r]
  /\ pc' = "done"
  /\ UNCHANGED <<tx, rx, dirs, call>>

CallGet2dAntennaGain ==
  /\ pc = "start"
  /\ call.fn = "get_2d_antenna_gain"
  /\ out' = [status |-> "returned",
             gain |-> Get2dAntennaGain(dirs, call.hor_gain, call.ver_gain,
                                       call.ver_gain_sup_angle, call.hor_gain_0,
                                       call.hor_gain_180, call.peak_ant_gain)]
  /\ pc' = "done"
  /\ UNCHANGED <<tx, rx, dirs, call>>

NextFunctions ==
  \/ CallGetDirsRelativeBoresight
  \/ CallCalculateGainFromGivenPatterns
  \/ CallGet2dAntennaGain

SpecFunctions == InitFunctions /\ [][NextFunctions]_vars

(***************************************************************************)
(* Properties of the dispatcher, stated of Spec.  The predicates below     *)
(* read the registration fields themselves.                                *)
(***************************************************************************)
Given(k) == k \in DOMAIN tx.installationParam

NonZero(k) == Given(k) /\ tx.installationParam[k] # 0

PatternGiven(k) ==
  /\ Given("antennaModel")
  /\ k \in DOMAIN tx.installationParam["antennaModel"]
  /\ DOMAIN tx.installationParam["antennaModel"][k] # {}

KnownPatternIds == {AntDatabase[i].antennaPatternId : i \in 1..Len(AntDatabase)}

\* The horizontal pattern the installation refers to, if any, is in the database.
PatternKnown ==
  PatternGiven("horizontalPattern") =>
    tx.installationParam["antennaModel"]["horizontalPattern"].antennaPatternId
      \in KnownPatternIds

Finished == pc = "done" /\ call.fn = "calculate_antenna_gain_EAP"

SelectedOne(m) == Len(out.invoked) = 1 /\ out.invoked[1].method = m

\* C1: an installation whose azimuth is absent or zero gets exactly its
\* antennaGain from calculate_antenna_gain_EAP, whatever the direction and
\* whatever else is registered.
C1_IsotropicWithoutAzimuth ==
  (Finished /\ ~NonZero("azimuth")) =>
    /\ out.status = "returned"
    /\ out.gain = RInt(tx.installationParam["antennaGain"])

\* A zero azimuth with a horizontal pattern, a downtilt and both beamwidths
\* registered, off the north: the gain is the registered 10 dBi.
C1_Witness ==
  /\ Finished
  /\ Given("azimuth") /\ tx.installationParam["azimuth"] = 0
  /\ PatternGiven("horizontalPattern") /\ PatternGiven("verticalPattern")
  /\ NonZero("antennaDowntilt") /\ NonZero("antennaBeamwidth")
  /\ dirs = DirsOf(RInt(100), RInt(-5))
  /\ out.status = "returned" /\ out.gain = RInt(10)

\* C3: for an installation whose pattern id is in the database the dispatcher
\* invokes exactly one of B1, C, D, E, F, once, and its outcome is that
\* method's outcome.
C3_ExactlyOneMethodAndItsResult ==
  (Finished /\ PatternKnown) =>
    /\ Len(out.invoked) = 1
    /\ out.invoked[1].method \in {"B1", "C", "D", "E", "F"}
    /\ out.status = out.invoked[1].status
    /\ out.error = out.invoked[1].error
    /\ out.gain = out.invoked[1].gain

\* C4: B1 is the method whenever the azimuth is non-zero, a horizontal and a
\* vertical pattern are given and antennaDowntilt is given, 0 included.
C4_B1ForEveryDowntilt ==
  (/\ Finished /\ PatternKnown
   /\ NonZero("azimuth")
   /\ PatternGiven("horizontalPattern") /\ PatternGiven("verticalPattern")
   /\ Given("antennaDowntilt")) =>
    SelectedOne("B1")

PatternMethods ==
  {"antenna_gain_method_b1", "antenna_gain_method_c", "antenna_gain_method_d",
   "antenna_gain_method_e"}

C7_WeightFromGivenDirection ==
  (pc = "done" /\ call.fn \in PatternMethods /\ out.status = "returned") =>
    out.locals.hor_dir = dirs["hor"]

\* C8: for directions and azimuths in [0, 360) the boresight-relative angle
\* of B1, C, D and E is greater than -180 and at most 180.
C8_ThetaRHalfOpen ==
  (pc = "done" /\ call.fn \in PatternMethods) =>
    /\ RLt(RInt(-180), out.locals.theta_r)
    /\ RLe(out.locals.theta_r, RInt(180))

(***************************************************************************)
(* Properties of the helper functions, stated of SpecFunctions.            *)
(***************************************************************************)

C9_FoldPeriodic ==
  (pc = "done" /\ call.fn = "get_dirs_relative_boresight") =>
    out.theta_r_turned = out.theta_r

StrictlyMonotonic(a) ==
  \/ \A i \in 1..(Len(a) - 1) : a[i] < a[i + 1]
  \/ \A i \in 1..(Len(a) - 1) : a[i] > a[i + 1]

\* C10: in a pattern whose sample angles are strictly monotonic, the lookup
\* at the i-th sample angle returns the i-th gain itself, not an
\* interpolation.
C10_LookupRoundTrip ==
  (/\ pc = "done" /\ call.fn = "calculate_gain_from_given_patterns"
   /\ StrictlyMonotonic(call.hor_pattern.angle)) =>
    \A i \in 1..Len(call.hor_pattern.angle) :
      dirs["hor"] = RInt(call.hor_pattern.angle[i]) =>
        /\ out.status = "returned"
        /\ out.g_h_theta_r.exact
        /\ out.g_h_theta_r.val = RInt(call.hor_pattern.gain[i])

\* The middle sample of a pattern given in decreasing order of angle.
C10_Witness ==
  /\ pc = "done" /\ call.fn = "calculate_gain_from_given_patterns"
  /\ call.hor_pattern = [angle |-> <<3, 0, -2>>, gain |-> <<0, 5, 0>>]
  /\ dirs["hor"] = RInt(0)
  /\ out.status = "returned"
  /\ out.g_h_theta_r.exact
  /\ out.g_h_theta_r.val = RInt(5)

SetMax(S) == CHOOSE x \in S : \A y \in S : x >= y

\* The first index of the sample of the pattern at the angle a.
FirstIndexOf(a) ==
  SetMin({i \in 1..Len(call.hor_pattern.angle) : call.hor_pattern.angle[i] = a})

\* The sample angles of the pattern below and above the direction asked.
SamplesBelow ==
  {call.hor_pattern.angle[i] : i \in 1..Len(call.hor_pattern.angle)}
    \cap {a \in -180..180 : a * dirs["hor"][2] < dirs["hor"][1]}

SamplesAbove ==
  {call.hor_pattern.angle[i] : i \in 1..Len(call.hor_pattern.angle)}
    \cap {a \in -180..180 : a * dirs["hor"][2] > dirs["hor"][1]}

IsSample ==
  \E i \in 1..Len(call.hor_pattern.angle) : RInt(call.hor_pattern.angle[i]) = dirs["hor"]

\* C11: at an angle that is no sample and has samples on both sides, the
\* lookup returns ((a_hi - angle) g_lo + (angle - a_lo) g_hi) / (a_hi - a_lo)
\* for a_lo the largest sample below and a_hi the smallest above (stated
\* times a_hi - a_lo), a value between g_lo and g_hi.
C11_Interpolation ==
  (/\ pc = "done" /\ call.fn = "calculate_gain_from_given_patterns"
   /\ ~IsSample /\ SamplesBelow # {} /\ SamplesAbove # {}) =>
    LET angle == dirs["hor"]
        a_lo == SetMax(SamplesBelow)
        a_hi == SetMin(SamplesAbove)
        g_lo == RInt(call.hor_pattern.gain[FirstIndexOf(a_lo)])
        g_hi == RInt(call.hor_pattern.gain[FirstIndexOf(a_hi)])
        g    == out.g_h_theta_r.val
    IN  /\ out.status = "returned"
        /\ ~out.g_h_theta_r.exact
        /\ RMul(g, RInt(a_hi - a_lo))
             = RAdd(RMul(RSub(RInt(a_hi), angle), g_lo),
                    RMul(RSub(angle, RInt(a_lo)), g_hi))
        /\ (RLe(g_lo, g) /\ RLe(g, g_hi)) \/ (RLe(g_hi, g) /\ RLe(g, g_lo))

\* Gains 0..359 on angles -180..179: the lookup at 20.5 returns 200.5.
C11_Witness ==
  /\ pc = "done" /\ call.fn = "calculate_gain_from_given_patterns"
  /\ call.hor_pattern = RampPattern
  /\ dirs["hor"] = Rat(41, 2)
  /\ out.status = "returned"
  /\ out.g_h_theta_r.val = Rat(401, 2)

\* C12: with a horizontal pattern of one sample a degree from -180 to 179,
\* B1, D and E get a horizontal gain at every boresight-relative angle of
\* the fold, 180 included: none of them fails for want of a sample above.
C12_CanonicalPatternCoversFold ==
  (/\ pc = "done"
   /\ call.fn \in {"antenna_gain_method_b1", "antenna_gain_method_d",
                   "antenna_gain_method_e"}) =>
    out.status = "returned"

(***************************************************************************)
(* Specification SpecGains: one call of a synthetic gain function.         *)
(***************************************************************************)

\* dirs with the horizontal plane, the vertical plane or both.
PlaneDirs ==
  { "hor" :> RInt(h) : h \in {0, 60, 180} }
  \cup { "ver" :> RInt(v) : v \in {0, 30, -5} }
  \cup { DirsOf(RInt(h), RInt(v)) : h \in {0, 60, 180}, v \in {0, 30, -5} }

HorVerCalls ==
  { [fn |-> "get_standard_antenna_gains_hor_ver", ant_azimuth |-> az,
     peak_ant_gain |-> pk, ant_mech_downtilt |-> dt, ant_hor_beamwidth |-> hbw,
     ant_ver_beamwidth |-> vbw, ant_fbr |-> fbr] :
      az \in Optional({20}), pk \in {0, 10}, dt \in Optional({0}),
      hbw \in Optional({0, 120, 360}), vbw \in Optional({0, 60, 360}),
      fbr \in Optional({0, 2, 10}) }

MaxVec == 2

\* The vectors of one to MaxVec directions drawn from S.
Vectors(S) == UNION { [1..n -> S] : n \in 1..MaxVec }

\* dirs['hor'] of get_standard_antenna_gain: a number or a list of numbers.
LegacyAngles == {RInt(0), RInt(90), RInt(180), RInt(270), RInt(310), Rat(7, 2)}
LegacyCalls ==
  { [fn |-> "get_standard_antenna_gain", is_scalar |-> sc, peak_ant_gain |-> pk,
     ant_az |-> az, hor_beamwidth |-> bw] :
      sc \in BOOLEAN, pk \in {5, 10}, az \in Optional({0, 50}),
      bw \in Optional({0, 100, 120, 360}) }

\* get_radar_normalized_gains with the beam closed at its edge.
RadarGainArrayClosedEdge(hor_dirs, radar_azimuth, radar_beamwidth) ==
  [k \in 1..Len(hor_dirs) |->
     LET bore_angle == RAbs(Fold180(RSub(hor_dirs[k], RInt(radar_azimuth))))
     IN  IF RLe(bore_angle, Rat(radar_beamwidth, 2)) THEN RInt(0) ELSE RInt(-25)]

\* bore_angle = hor_dirs - radar_azimuth, folded, np.abs; gains = -25 * ones;
\* gains[bore_angle < radar_beamwidth / 2.] = 0
RadarGainArray(hor_dirs, radar_azimuth, radar_beamwidth) ==
  [k \in 1..Len(hor_dirs) |->
     LET bore_angle == RAbs(Fold180(RSub(hor_dirs[k], RInt(radar_azimuth))))
     IN  IF RLt(bore_angle, Rat(radar_beamwidth, 2)) THEN RInt(0) ELSE RInt(-25)]

\* get_radar_normalized_gains: `if radar_beamwidth == 360: return 0.` comes
\* before np.isscalar and np.atleast_1d, so that return is the float 0.0
\* whatever hor_dirs is.
GetRadarNormalizedGains(hor_dirs, is_scalar, radar_azimuth, radar_beamwidth) ==
  IF radar_beamwidth = 360
    THEN [scalar |-> TRUE, vals |-> <<RInt(0)>>]
    ELSE Shaped(RadarGainArray(AtLeast1d(hor_dirs, is_scalar), radar_azimuth,
                               radar_beamwidth), is_scalar)

\* hor_dirs of get_radar_normalized_gains: directions either side of the
\* azimuths, on and about the edge of the beam.
RadarAngles ==
  {RInt(0), RInt(1), Rat(3, 2), RInt(2), RInt(89), RInt(90), RInt(91), RInt(180),
   RInt(270), RInt(358), Rat(717, 2), RInt(359)}
RadarCalls ==
  { [fn |-> "get_radar_normalized_gains", is_scalar |-> sc, radar_azimuth |-> az,
     radar_beamwidth |-> bw] :
      sc \in BOOLEAN, az \in {0, 90}, bw \in {2, 3, 360} }

\* The four compass directions of the DPA example.
CompassVector == <<RInt(0), RInt(90), RInt(180), RInt(270)>>

\* 25 * np.log10(theta) in thousandths of a dB, rounded to the nearest, at the
\* off-axis angles the model uses.
Log10Times25 ==
  (RInt(1) :> 0) @@ (Rat(3, 2) :> 4402) @@ (RInt(2) :> 7526) @@ (RInt(3) :> 11928) @@
  (RInt(4) :> 15051) @@ (RInt(7) :> 21127) @@ (RInt(8) :> 22577) @@
  (Rat(46, 5) :> 24095) @@ (RInt(10) :> 25000) @@ (RInt(30) :> 36928) @@
  (RInt(48) :> 42031) @@ (RInt(49) :> 42255) @@ (RInt(88) :> 48612) @@
  (RInt(90) :> 48856)

\* base - 25 * np.log10(theta)
LogRollOff(base, theta) == RSub(RInt(base), Rat(Log10Times25[theta], 1000))

\* gain_gso_p with the piece up to 3 degrees open at 3.
GsoPerpendicularOpenAt3(theta, nominal_gain) ==
  IF RLt(RInt(3), theta) /\ RLe(theta, RInt(48)) THEN LogRollOff(32, theta)
  ELSE IF RLt(theta, RInt(3)) THEN RInt(nominal_gain)
  ELSE RInt(-10)

\* gain_gso_p = -10; gain_gso_p[theta <= 3] = nominal_gain;
\* gain_gso_p[(theta > 3) & (theta <= 48)] = 32 - 25 * np.log10(theta)
GsoPerpendicular(theta, nominal_gain) ==
  IF RLt(RInt(3), theta) /\ RLe(theta, RInt(48)) THEN LogRollOff(32, theta)
  ELSE IF RLe(theta, RInt(3)) THEN RInt(nominal_gain)
  ELSE RInt(-10)

\* gain_gso_t = -10; [theta <= 1.5] = nominal_gain; [(theta > 1.5) & (theta <= 7)]
\* = 29 - 25 * np.log10(theta); [(theta > 7) & (theta <= 9.2)] = 8;
\* [(theta > 9.2) & (theta <= 48)] = 32 - 25 * np.log10(theta).  The masks are
\* applied in this order, a later one overwriting an earlier one.
GsoTangent(theta, nominal_gain) ==
  IF RLt(Rat(46, 5), theta) /\ RLe(theta, RInt(48)) THEN LogRollOff(32, theta)
  ELSE IF RLt(RInt(7), theta) /\ RLe(theta, Rat(46, 5)) THEN RInt(8)
  ELSE IF RLt(Rat(3, 2), theta) /\ RLe(theta, RInt(7)) THEN LogRollOff(29, theta)
  ELSE IF RLe(theta, Rat(3, 2)) THEN RInt(nominal_gain)
  ELSE RInt(-10)

\* get_gso_gains: theta = np.abs(theta); return gain_gso_t, gain_gso_p
GetGsoGains(theta, nominal_gain) ==
  [gain_gso_t |-> [k \in 1..Len(theta) |-> GsoTangent(RAbs(theta[k]), nominal_gain)],
   gain_gso_p |-> [k \in 1..Len(theta) |-> GsoPerpendicular(RAbs(theta[k]), nominal_gain)]]

\* theta = 180/pi * arccos(cos(ver) cos(el) cos(az - hor) + sin(ver) sin(el)),
\* for a ray in the horizon plane of a station pointing at the horizon
\* (ver = el = 0: the angle between az and hor) and for a ray in the azimuth
\* of the station (hor = az: the angle between ver and el).
OffAxisAngle(hor, ver, fss_pointing_azimuth, fss_pointing_elevation) ==
  IF ver = RInt(0) /\ fss_pointing_elevation = 0
    THEN RAbs(Fold180(RSub(RInt(fss_pointing_azimuth), hor)))
    ELSE RAbs(RSub(ver, RInt(fss_pointing_elevation)))

\* gains = w_1 * gain_gso_t + w_2 * gain_gso_p
WeightedGains(g, w_1, w_2) ==
  [k \in 1..Len(g.gain_gso_t) |->
     RAdd(RMul(w_1, g.gain_gso_t[k]), RMul(w_2, g.gain_gso_p[k]))]

\* get_fss_gains, with the off-axis angles it computed.
GetFssGains(hor_dirs, ver_dirs, is_scalar, az, el, fss_antenna_gain, w_1, w_2) ==
  LET hor == AtLeast1d(hor_dirs, is_scalar)
      ver == AtLeast1d(ver_dirs, is_scalar)
      theta == [k \in 1..Len(hor) |-> OffAxisAngle(hor[k], ver[k], az, el)]
  IN  [theta |-> theta,
       gains |-> Shaped(WeightedGains(GetGsoGains(theta, fss_antenna_gain), w_1, w_2),
                        is_scalar)]

\* Off-axis angles on every breakpoint of the two masks, either side of each,
\* and one negative.
GsoAngles ==
  {RInt(0), RInt(1), Rat(3, 2), RInt(2), RInt(3), RInt(4), RInt(7), RInt(8),
   Rat(46, 5), RInt(10), RInt(30), RInt(48), RInt(49), RInt(90), RInt(-4)}
NominalGains == {30, 40}
GsoCalls == { [fn |-> "get_gso_gains", nominal_gain |-> n] : n \in NominalGains }

\* w_1=0, w_2=1.0 are the defaults.
Weights == {<<RInt(0), RInt(1)>>, <<RInt(1), RInt(0)>>, <<Rat(1, 2), Rat(1, 2)>>,
            <<RInt(1), RInt(1)>>}
FssCalls ==
  { [fn |-> "get_fss_gains", is_scalar |-> sc, fss_pointing_azimuth |-> az,
     fss_pointing_elevation |-> el, fss_antenna_gain |-> n, w_1 |-> w[1], w_2 |-> w[2]] :
      sc \in BOOLEAN, az \in {0, 2}, el \in {0, 30}, n \in NominalGains, w \in Weights }

\* The rays <<hor, ver>> of a station: in the horizon plane when it points at
\* the horizon, in its own azimuth otherwise.
FssRays(c) ==
  IF c.fss_pointing_elevation = 0
    THEN { <<h, RInt(0)>> : h \in {RInt(0), RInt(2), RInt(4), RInt(10), RInt(90), RInt(358)} }
    ELSE { <<RInt(c.fss_pointing_azimuth), v>> : v \in {RInt(0), RInt(20), RInt(30)} }
FssDirs(c) ==
  IF c.is_scalar
    THEN { [hor |-> r[1], ver |-> r[2]] : r \in FssRays(c) }
    ELSE { [hor |-> [k \in DOMAIN rs |-> rs[k][1]], ver |-> [k \in DOMAIN rs |-> rs[k][2]]] :
             rs \in Vectors(FssRays(c)) }

InitGains ==
  /\ pc = "start"
  /\ tx = NoInstallation
  /\ rx = Receiver
  /\ \/ call \in HorVerCalls /\ dirs \in PlaneDirs
     \/ /\ call \in LegacyCalls
        /\ dirs \in {"hor" :> h : h \in IF call.is_scalar THEN LegacyAngles
                                                       ELSE Vectors(LegacyAngles)}
     \/ /\ call \in RadarCalls
        /\ dirs \in {"hor" :> h : h \in IF call.is_scalar THEN RadarAngles
                          ELSE Vectors(RadarAngles) \cup {CompassVector}}
     \/ /\ call \in GsoCalls
        /\ dirs \in {"theta" :> t : t \in Vectors(GsoAngles)}
     \/ /\ call \in FssCalls
        /\ dirs \in FssDirs(call)
  /\ out = Pending

\* return g_h_theta_r, g_v_phi_r
HorVerReturned(g) ==
  out' = [status |-> "returned", g_h_theta_r |-> g.g_h_theta_r, g_v_phi_r |-> g.g_v_phi_r]

CallGetStandardAntennaGainsHorVer ==
  /\ pc = "start"
  /\ call.fn = "get_standard_antenna_gains_hor_ver"
  /\ HorVerReturned(GetStandardAntennaGainsHorVer(dirs, call.ant_azimuth,
       call.peak_ant_gain, call.ant_mech_downtilt, call.ant_hor_beamwidth,
       call.ant_ver_beamwidth, call.ant_fbr))
  /\ pc' = "done"
  /\ UNCHANGED <<tx, rx, dirs, call>>

\* The gains of the call, and beside them the gain of the call on each single
\* direction of dirs['hor'].
CallGetStandardAntennaGain ==
  /\ pc = "start"
  /\ call.fn = "get_standard_antenna_gain"
  /\ LET hor_dirs == AtLeast1d(dirs["hor"], call.is_scalar)
     IN  out' = [status |-> "returned",
                 gains |-> Shaped(StandardGainArray(hor_dirs, call.peak_ant_gain,
                                                    call.ant_az, call.hor_beamwidth),
                                  call.is_scalar),
                 each |-> [k \in 1..Len(hor_dirs) |->
                             GetStandardAntennaGain("hor" :> hor_dirs[k],
                               call.peak_ant_gain, call.ant_az, call.hor_beamwidth)]]
  /\ pc' = "done"
  /\ UNCHANGED <<tx, rx, dirs, call>>

CallGetRadarNormalizedGains ==
  /\ pc = "start"
  /\ call.fn = "get_radar_normalized_gains"
  /\ out' = [status |-> "returned",
             gains |-> GetRadarNormalizedGains(dirs["hor"], call.is_scalar,
                         call.radar_azimuth, call.radar_beamwidth)]
  /\ pc' = "done"
  /\ UNCHANGED <<tx, rx, dirs, call>>

GsoReturned(g) ==
  out' = [status |-> "returned", gain_gso_t |-> g.gain_gso_t, gain_gso_p |-> g.gain_gso_p]

CallGetGsoGains ==
  /\ pc = "start"
  /\ call.fn = "get_gso_gains"
  /\ GsoReturned(GetGsoGains(dirs["theta"], call.nominal_gain))
  /\ pc' = "done"
  /\ UNCHANGED <<tx, rx, dirs, call>>

FssReturned(g) ==
  out' = [status |-> "returned", theta |-> g.theta, gains |-> g.gains]

CallGetFssGains ==
  /\ pc = "start"
  /\ call.fn = "get_fss_gains"
  /\ FssReturned(GetFssGains(dirs["hor"], dirs["ver"], call.is_scalar,
       call.fss_pointing_azimuth, call.fss_pointing_elevation,
       call.fss_antenna_gain, call.w_1, call.w_2))
  /\ pc' = "done"
  /\ UNCHANGED <<tx, rx, dirs, call>>

NextGains ==
  \/ CallGetStandardAntennaGainsHorVer
  \/ CallGetStandardAntennaGain
  \/ CallGetRadarNormalizedGains
  \/ CallGetGsoGains
  \/ CallGetFssGains

SpecGains == InitGains /\ [][NextGains]_vars

(***************************************************************************)
(* Properties of the synthetic gains, stated of SpecGains.                 *)
(***************************************************************************)

\* What C13 says of one plane: the gain g at the angle for a beamwidth, a
\* driver (azimuth or downtilt), the peak and the front-to-back ratio, each
\* but the peak <<>> when None.
PlaneGainAsStated(g, angle, beamwidth, driver, peak, ant_fbr) ==
  LET fbr == IF ant_fbr = <<>> THEN RInt(20) ELSE RInt(ant_fbr[1])
      isotropic == beamwidth \in {<<>>, <<0>>, <<360>>} \/ driver = <<>>
      parabola == RDiv(RMul(RInt(12), RMul(angle, angle)),
                       RInt(beamwidth[1] * beamwidth[1]))
  IN  /\ isotropic => g = RInt(peak)
      /\ ~isotropic =>
           g = RSub(RInt(peak), IF RLe(parabola, fbr) THEN parabola ELSE fbr)
      /\ RLe(RSub(RInt(peak), fbr), g) /\ RLe(g, RInt(peak))
      /\ (/\ ~isotropic /\ RMul(RInt(2), angle) = RInt(beamwidth[1])
          /\ RLe(RInt(3), fbr)) => g = RInt(peak - 3)

C14_LegacyGain ==
  (pc = "done" /\ call.fn = "get_standard_antenna_gain") =>
    LET hor == IF call.is_scalar THEN <<dirs["hor"]>> ELSE dirs["hor"]
        isotropic == call.hor_beamwidth \in {<<>>, <<0>>, <<360>>} \/ call.ant_az = <<>>
    IN  /\ out.gains.scalar = call.is_scalar
        /\ Len(out.gains.vals) = Len(hor)
        /\ \A k \in 1..Len(hor) :
             /\ out.gains.vals[k] = out.each[k]
             /\ isotropic => out.gains.vals[k] = RInt(call.peak_ant_gain)
             /\ ~isotropic =>
                  LET theta_r == Fold180(RSub(hor[k], RInt(call.ant_az[1])))
                      parabola == RDiv(RMul(RInt(12), RMul(theta_r, theta_r)),
                                       RInt(call.hor_beamwidth[1] * call.hor_beamwidth[1]))
                  IN  out.gains.vals[k] =
                        RSub(RInt(call.peak_ant_gain),
                             IF RLe(parabola, RInt(20)) THEN parabola ELSE RInt(20))

\* Directions 310 and 180 for azimuth 50, beamwidth 100 and peak 10: -2 dBi
\* at 100 degrees off boresight and the floor, -10 dBi, at 130.
C14_Witness ==
  /\ pc = "done" /\ call.fn = "get_standard_antenna_gain"
  /\ ~call.is_scalar
  /\ dirs["hor"] = <<RInt(310), RInt(180)>>
  /\ call.ant_az = <<50>> /\ call.hor_beamwidth = <<100>> /\ call.peak_ant_gain = 10
  /\ out.gains = [scalar |-> FALSE, vals |-> <<RInt(-2), RInt(-10)>>]

\* The directions of the call, one by one.
RadarDirs == AtLeast1d(dirs["hor"], call.is_scalar)

\* Two directions lie mirrored about the azimuth: their offsets from it add up
\* to a whole number of turns.
Mirrored(a, b, azimuth) ==
  \E n \in -1..1 : RAdd(RSub(a, RInt(azimuth)), RSub(b, RInt(azimuth))) = RInt(360 * n)

\* C16: every gain of get_radar_normalized_gains is 0 dB or -25 dB; it is 0 dB
\* for beamwidth 360, and otherwise 0 dB where the folded absolute offset from
\* the azimuth is strictly below half the beamwidth and -25 dB elsewhere;
\* directions mirrored about the azimuth have the same gain.
C16_RadarGains ==
  (pc = "done" /\ call.fn = "get_radar_normalized_gains") =>
    LET g == out.gains.vals
        Delta(k) == RAbs(Fold180(RSub(RadarDirs[k], RInt(call.radar_azimuth))))
    IN  /\ \A k \in 1..Len(g) : g[k] \in {RInt(0), RInt(-25)}
        /\ call.radar_beamwidth = 360 => \A k \in 1..Len(g) : g[k] = RInt(0)
        /\ call.radar_beamwidth # 360 =>
             /\ Len(g) = Len(RadarDirs)
             /\ \A k \in 1..Len(g) :
                  /\ RLt(Delta(k), Rat(call.radar_beamwidth, 2)) => g[k] = RInt(0)
                  /\ RLe(Rat(call.radar_beamwidth, 2), Delta(k)) => g[k] = RInt(-25)
             /\ \A j, k \in 1..Len(g) :
                  Mirrored(RadarDirs[j], RadarDirs[k], call.radar_azimuth) =>
                    g[j] = g[k]

\* The DPA example: hor = [0, 90, 180, 270], azimuth 0, beamwidth 3.
C16_Witness ==
  /\ pc = "done"
  /\ call.fn = "get_radar_normalized_gains"
  /\ ~call.is_scalar
  /\ dirs["hor"] = CompassVector
  /\ call.radar_azimuth = 0
  /\ call.radar_beamwidth = 3
  /\ out.gains.vals = <<RInt(0), RInt(-25), RInt(-25), RInt(-25)>>

\* C17: get_radar_normalized_gains preserves the shape of its directions for
\* every beamwidth: n directions yield n gains, a scalar yields a scalar.
C17_RadarShapePreserved ==
  (pc = "done" /\ call.fn = "get_radar_normalized_gains") =>
    /\ out.gains.scalar = call.is_scalar
    /\ Len(out.gains.vals) = Len(RadarDirs)

\* G_P as stated: nominal up to 3, 32 - 25 log10 up to 48, -10 beyond.
StatedGP(theta, nominal) ==
  CASE RLe(theta, RInt(3)) -> RInt(nominal)
    [] RLt(RInt(3), theta) /\ RLe(theta, RInt(48)) -> LogRollOff(32, theta)
    [] RLt(RInt(48), theta) -> RInt(-10)

\* G_T as stated: nominal up to 1.5, 29 - 25 log10 up to 7, 8 up to 9.2,
\* 32 - 25 log10 up to 48, -10 beyond.
StatedGT(theta, nominal) ==
  CASE RLe(theta, Rat(3, 2)) -> RInt(nominal)
    [] RLt(Rat(3, 2), theta) /\ RLe(theta, RInt(7)) -> LogRollOff(29, theta)
    [] RLt(RInt(7), theta) /\ RLe(theta, Rat(46, 5)) -> RInt(8)
    [] RLt(Rat(46, 5), theta) /\ RLe(theta, RInt(48)) -> LogRollOff(32, theta)
    [] RLt(RInt(48), theta) -> RInt(-10)

\* C19: get_gso_gains gives, at the off-axis angle |theta|, the stated pieces
\* of G_P and G_T with every breakpoint in the piece below it; get_fss_gains
\* gives w_1 G_T + w_2 G_P at its off-axis angle, which is G_P under the
\* default weights (0, 1), and then the nominal gain on axis.
C19_GsoPiecesAndFssWeights ==
  /\ (pc = "done" /\ call.fn = "get_gso_gains") =>
       \A k \in 1..Len(dirs["theta"]) :
         /\ out.gain_gso_p[k] = StatedGP(RAbs(dirs["theta"][k]), call.nominal_gain)
         /\ out.gain_gso_t[k] = StatedGT(RAbs(dirs["theta"][k]), call.nominal_gain)
  /\ (pc = "done" /\ call.fn = "get_fss_gains") =>
       /\ out.gains.scalar = call.is_scalar
       /\ \A k \in 1..Len(out.theta) :
            LET gt == StatedGT(out.theta[k], call.fss_antenna_gain)
                gp == StatedGP(out.theta[k], call.fss_antenna_gain)
                default == call.w_1 = RInt(0) /\ call.w_2 = RInt(1)
            IN  /\ out.gains.vals[k] = RAdd(RMul(call.w_1, gt), RMul(call.w_2, gp))
                /\ default => out.gains.vals[k] = gp
                /\ (default /\ out.theta[k] = RInt(0)) =>
                     out.gains.vals[k] = RInt(call.fss_antenna_gain)

\* The breakpoints 3 and 9.2 and the angle 49 in one call of get_gso_gains,
\* and a call of get_fss_gains weighing both planes at 8 degrees off axis.
C19_Witness ==
  \/ /\ pc = "done"
     /\ call.fn = "get_gso_gains"
     /\ call.nominal_gain = 40
     /\ dirs["theta"] = <<RInt(3), Rat(46, 5)>>
     /\ out.gain_gso_p = <<RInt(40), Rat(32000 - 24095, 1000)>>
     /\ out.gain_gso_t = <<Rat(29000 - 11928, 1000), RInt(8)>>
  \/ /\ pc = "done"
     /\ call.fn = "get_fss_gains"
     /\ call.is_scalar
     /\ call.w_1 = Rat(1, 2)
     /\ out.theta = <<RInt(8)>>
     /\ out.gains.vals = <<Rat(8000 + 32000 - 22577, 2000)>>

(***************************************************************************)
(* Further properties of the gain methods, stated of SpecMethods.          *)
(***************************************************************************)

\* The call of the state with another downtilt, all else equal.
SameCallWithDowntilt(downtilt) ==
  CASE call.fn = "antenna_gain_method_b1" ->
         AntennaGainMethodB1(dirs, call.ant_az, call.peak_ant_gain,
                             ReadPatternFile(call.hor_pattern),
                             ReadPatternFile(call.ver_pattern), downtilt)
    [] call.fn = "antenna_gain_method_c" ->
         AntennaGainMethodC(dirs, call.ant_az, call.peak_ant_gain, downtilt,
                            call.hor_beamwidth, call.ver_beamwidth, call.fbr)
    [] call.fn = "antenna_gain_method_d" ->
         AntennaGainMethodD(dirs, call.ant_az, call.peak_ant_gain,
                            ReadPatternFile(call.hor_pattern), downtilt,
                            call.ver_beamwidth, call.fbr)

\* What a method yielded, gain or exception.
Yield(m) == [status |-> m.status, error |-> m.error, gain |-> m.gain]

\* C15: for a downtilt d beyond +-15 each of B1, C and D yields what it
\* yields for the downtilt sign(d) 15, all else equal.
C15_DowntiltClampEquivalence ==
  (/\ pc = "done"
   /\ call.fn \in {"antenna_gain_method_b1", "antenna_gain_method_c",
                   "antenna_gain_method_d"}
   /\ (call.downtilt > 15 \/ call.downtilt < -15)) =>
    Yield(out) = Yield(SameCallWithDowntilt(IF call.downtilt > 15 THEN 15 ELSE -15))

\* C18: each of B1, C, D and E, called with a scalar direction, returns a
\* scalar gain.  (Every direction of SpecMethods is a scalar.)
C18_ScalarDirectionScalarGain ==
  (pc = "done" /\ call.fn \in PatternMethods /\ out.status = "returned") =>
    ~out.is_array

(***************************************************************************)
(* A further property of the dispatcher, stated of Spec.                   *)
(***************************************************************************)

\* C20: an installation with a non-zero azimuth whose antennaPatternId is not
\* in the pattern database makes calculate_antenna_gain_EAP fail with the
\* PatternNotFound error, without a gain and without calling a method.
C20_UnknownPatternIdIsPatternNotFound ==
  (Finished /\ NonZero("azimuth") /\ ~PatternKnown) =>
    /\ out.status = "raised"
    /\ out.error = "PatternNotFound"
    /\ out.invoked = <<>>

(***************************************************************************)
(* Properties of the relative angles of the methods, stated of SpecMethods.*)
(***************************************************************************)

DowntiltMethods ==
  {"antenna_gain_method_b1", "antenna_gain_method_c", "antenna_gain_method_d"}

\* C21: in B1, C and D a downtilt beyond +-15 enters phi_r as supplied:
\* phi_r = ver + downtilt c, with c the cosine factor at theta_r.
C21_PhiRFromUnclampedDowntilt ==
  (/\ pc = "done"
   /\ call.fn \in DowntiltMethods
   /\ (call.downtilt > 15 \/ call.downtilt < -15)) =>
    out.locals.phi_r = PhiR(dirs["ver"], call.downtilt, out.locals.theta_r)

\* C22: the supplementary vertical angle B1, C and D use lies in (-180, 180]:
\* it is never -180 and never above 180.
C22_SupplementaryAngleFolded ==
  (pc = "done" /\ call.fn \in DowntiltMethods) =>
    /\ RLt(RInt(-180), out.locals.phi_r_sup)
    /\ RLe(out.locals.phi_r_sup, RInt(180))

\* C23, stated of SpecFunctions: without a downtilt phi_r is 0; with one, the
\* downtilt is added in full at boresight, not at all at theta_r = +-90, and
\* subtracted in full at theta_r = +-180.
C23_DowntiltByCosineOfThetaR ==
  (pc = "done" /\ call.fn = "get_dirs_relative_boresight") =>
    IF call.downtilt = <<>> THEN out.phi_r = RInt(0)
    ELSE LET turn == RMul(RInt(call.downtilt[1]),
                          CASE out.theta_r = RInt(0) -> RInt(1)
                            [] RAbs(out.theta_r) = RInt(90) -> RInt(0)
                            [] RAbs(out.theta_r) = RInt(180) -> RInt(-1))
         IN  out.phi_r = RAdd(dirs["ver"], turn)

(***************************************************************************)
(* Further properties of the dispatcher, stated of Spec.                   *)
(***************************************************************************)

\* C24: when the dispatcher selects method C, the gain it returns is that of
\* antenna_gain_method_c with ant_az the installation's azimuth and
\* peak_ant_gain its antennaGain.
C24_MethodCFromAzimuthAndGain ==
  (Finished /\ SelectedOne("C")) =>
    LET ip == tx.installationParam
        m  == AntennaGainMethodC(dirs, ip["azimuth"], ip["antennaGain"],
                ip["antennaDowntilt"], ip["antennaBeamwidth"],
                ip["antennaVerticalBeamwidth"], ip["frontToBackRatio"])
    IN  /\ ip["azimuth"] # ip["antennaGain"]
        /\ out.status = "returned"
        /\ out.gain = m.gain

\* The elevation table the database holds for a pattern id.
ElevationTableOf(antennaPatternId) ==
  LET row == CHOOSE i \in 1..Len(AntDatabase) :
               AntDatabase[i].antennaPatternId = antennaPatternId
  IN  ReadPatternFile(AntDatabase[row].elevationRadiationPattern)

\* C25: when the dispatcher selects B1, the outcome is that of
\* antenna_gain_method_b1 with the elevation table of the installation's
\* verticalPattern reference as vertical pattern.
C25_B1VerticalFromElevationTable ==
  (Finished /\ SelectedOne("B1")) =>
    LET ip == tx.installationParam
        am == ip["antennaModel"]
        m  == AntennaGainMethodB1(dirs, ip["azimuth"], ip["antennaGain"],
                ReadPatternFile(PattFilename(AntDatabase,
                                  am["horizontalPattern"].antennaPatternId)[1]),
                ElevationTableOf(am["verticalPattern"].antennaPatternId),
                ip["antennaDowntilt"])
    IN  /\ out.invoked[1].status = m.status
        /\ out.invoked[1].gain = m.gain

(***************************************************************************)
(* Properties of the peak gain and the weight, stated of SpecMethods.      *)
(***************************************************************************)

\* The call of the state with its peak gain raised by k, all else equal.
SameCallWithPeakRaised(k) ==
  CASE call.fn = "antenna_gain_method_b1" ->
         AntennaGainMethodB1(dirs, call.ant_az, call.peak_ant_gain + k,
                             ReadPatternFile(call.hor_pattern),
                             ReadPatternFile(call.ver_pattern), call.downtilt)
    [] call.fn = "antenna_gain_method_c" ->
         AntennaGainMethodC(dirs, call.ant_az, call.peak_ant_gain + k, call.downtilt,
                            call.hor_beamwidth, call.ver_beamwidth, call.fbr)
    [] call.fn = "antenna_gain_method_d" ->
         AntennaGainMethodD(dirs, call.ant_az, call.peak_ant_gain + k,
                            ReadPatternFile(call.hor_pattern), call.downtilt,
                            call.ver_beamwidth, call.fbr)
    [] call.fn = "antenna_gain_method_e" ->
         AntennaGainMethodE(dirs, call.ant_az, call.peak_ant_gain + k,
                            ReadPatternFile(call.hor_pattern))

\* C26: for B1, C, D and E, raising peak_ant_gain by k raises the returned
\* gain by exactly k.
C26_PeakAddedOnce ==
  (pc = "done" /\ call.fn \in PatternMethods /\ out.status = "returned") =>
    \A k \in {-3, 1, 10} :
      /\ SameCallWithPeakRaised(k).status = "returned"
      /\ SameCallWithPeakRaised(k).gain = RAdd(out.gain, RInt(k))

(***************************************************************************)
(* The frame of the dispatcher, stated of Spec.                            *)
(***************************************************************************)

\* C27: a call of calculate_antenna_gain_EAP leaves the receiver record as it
\* was, and the installation record too, but for frontToBackRatio, set to 20
\* when the azimuth is given and non-zero and frontToBackRatio is missing or 0.
C27_OnlyFrontToBackRatioDefaulted ==
  [][ (pc = "start" /\ pc' = "done" /\ call.fn = "calculate_antenna_gain_EAP") =>
        /\ rx' = rx
        /\ tx' = IF NonZero("azimuth") /\ ~NonZero("frontToBackRatio")
                 THEN [installationParam |->
                         ("frontToBackRatio" :> 20) @@ tx.installationParam]
                 ELSE tx ]_vars

\* A finished call on an installation with a beamwidth whose frontToBackRatio
\* is 20: no installation starts with that value.
C27_Witness ==
  /\ Finished
  /\ NonZero("azimuth")
  /\ NonZero("antennaBeamwidth")
  /\ Given("frontToBackRatio")
  /\ tx.installationParam["frontToBackRatio"] = 20

(***************************************************************************)
(* The library against the harness, stated of SpecMethods.                 *)
(***************************************************************************)

\* The method of the harness, on the arguments of the library call of the state.
HarnessCounterpart ==
  CASE call.fn = "b1_antenna_gain" ->
         AntennaGainMethodB1(dirs, call.ant_az, call.peak_ant_gain,
                             ReadPatternFile(call.hor_pattern),
                             ReadPatternFile(call.ver_pattern), call.downtilt)
    [] call.fn = "c_antenna_gain" ->
         AntennaGainMethodC(dirs, call.ant_az, call.peak_ant_gain, call.downtilt,
                            call.hor_beamwidth, call.ver_beamwidth, call.fbr)
    [] call.fn = "d_antenna_gain" ->
         AntennaGainMethodD(dirs, call.ant_az, call.peak_ant_gain,
                            ReadPatternFile(call.hor_pattern), call.downtilt,
                            call.ver_beamwidth, call.fbr)
    [] call.fn = "e_antenna_gain" ->
         AntennaGainMethodE(dirs, call.ant_az, call.peak_ant_gain,
                            ReadPatternFile(call.hor_pattern))

LibraryFunctions ==
  {"b1_antenna_gain", "c_antenna_gain", "d_antenna_gain", "e_antenna_gain"}

\* C28: b1_antenna_gain, c_antenna_gain, d_antenna_gain and e_antenna_gain of
\* the library yield, on every input, what antenna_gain_method_b1, _c, _d
\* and _e of the harness yield.
C28_LibraryEqualsHarness ==
  (pc = "done" /\ call.fn \in LibraryFunctions) =>
    Yield(out) = Yield(HarnessCounterpart)

(***************************************************************************)
(* Method E on a canonical pattern, stated of SpecMethods.                 *)
(***************************************************************************)

\* G_H(theta) of a canonical pattern p, one sample a degree from -180 to 179,
\* for -180 <= theta < 180: the sample at theta, or the point at theta of the
\* line through the samples at the whole degrees either side of it.
CanonicalGain(p, theta) ==
  LET lo == theta[1] \div theta[2]
      at(deg) == RInt(p.gain[deg + 181])
  IN  IF theta = RInt(lo) THEN at(lo)
      ELSE RAdd(at(lo), RMul(RSub(theta, RInt(lo)), RSub(at(lo + 1), at(lo))))

C30_WeightWithinUnitInterval ==
  (pc = "done" /\ call.fn \in PatternMethods /\ out.status = "returned") =>
    LET w == RDiv(RAbs(out.locals.hor_dir), RInt(180))
    IN  RLe(RInt(0), w) /\ RLe(w, RInt(1))

====
